---- MODULE Spec2Model ----
\* Multi-instance task runner: peers race to execute the fires of scheduled
\* tasks and coordinate through leases kept in the shared Task Store.
\* Time is counted in units of 10 seconds (the period of the lock refresh
\* ticker); one Tick step is 10 seconds passing for every peer and the store.
EXTENDS Integers, Sequences, FiniteSets

\* ---------------------------------------------------------------- bounds
\* Fires started in a run, over all peers and tasks.
MaxFires == 2

\* Highest entry id the cron engine hands out to a ScheduleTask call made
\* through the API.
MaxRegistrations == 3

\* ------------------------------------------------------------- constants
\* context.WithTimeout(..., 30*time.Second), in 10 s units.
TimeoutTicks == 3
\* Default lease expiry of try_acquire ("tens of seconds"), in 10 s units.
LeaseTTL == 3

\* TickerTicks with a refresh interval longer than the lease expiry.
TickerTicks_LongerThanExpiry == LeaseTTL + 1

\* time.NewTicker(10 * time.Second), in 10 s units.
TickerTicks == 1

Peers == {"p1", "p2"}
Tasks == {"A", "B"}
NoTask == "none"

\* models.TaskStatus
TaskStatusPending == "pending"
TaskStatusRunning == "running"
TaskStatusCompleted == "completed"
TaskStatusFailed == "failed"

\* The dependency list each task was created with: B depends on A.
Dependencies(t) == IF t = "B" THEN <<"A">> ELSE <<>>

\* models.TaskType
TaskTypeHTTP == "http"

\* Task.Config.HTTP of a task without HTTP configuration (nil pointer).
NoHTTP == "none"

\* models.NewTask: status pending, version 1; with the type, schedule and
\* HTTP configuration of an ordinary task ("schedule" holds whether the cron
\* expression parses, "http" the URL).
NewTask(t) ==
  [status |-> TaskStatusPending, version |-> 1, deps |-> Dependencies(t),
   type |-> TaskTypeHTTP, schedule |-> "ok", http |-> "u1"]

VARIABLES
  tasks,     \* Task Store, tasks table: task id -> stored task
  results,   \* Task Store, task_results rows per task, in insertion order
  leases,    \* Task Store, lease rows [task, holder, ttl]
  reg,       \* per peer: the task copies captured by its registered triggers
  fire,      \* per peer: the executeTask call in progress (or the last one)
  obs,       \* per peer: what that call has done so far (observation only)
  fired,     \* per peer and task: fires started so far
  seq,       \* clock read by time.Now() for a result's StartTime
  sched,     \* per peer: the Scheduler's entries map and its cron engine
  caller,    \* per peer: the task object last passed to ScheduleTask
  now,       \* per peer: the ExecuteTaskNow call in progress (or the last one)
  db,        \* PostgresStorage: the rows of tasks, task_dependencies, task_results
  ret        \* PostgresStorage: the last call made and what it returned

vars ==
  <<tasks, results, leases, reg, fire, obs, fired, seq, sched, caller, now, db,
    ret>>

\* ------------------------------------------------------- per-fire records
IdleFire ==
  [task |-> NoTask, k |-> 0, pc |-> "idle", lockRes |-> "none", elapsed |-> 0,
   depIdx |-> 1, res |-> [status |-> "none", err |-> "", start |-> 0],
   ref |-> "none", tick |-> FALSE]

NoObs ==
  [nDispatch |-> 0, nCreate |-> 0, nUpdate |-> 0,
   nRelease |-> 0, created |-> FALSE, timedOut |-> FALSE,
   read |-> "none", seen |-> <<>>, gate |-> "none",
   refreshAfterRelease |-> FALSE, unheldLockOp |-> FALSE, fault |-> FALSE,
   lost |-> FALSE]

\* taskCtx.Done(): the 30 s deadline has passed or the deferred cancel() ran.
CtxDone(p) == fire[p].elapsed >= TimeoutTicks \/ fire[p].pc = "done"

\* A store call made with taskCtx succeeds only if the store itself does (ok)
\* and the context is still live: database/sql returns ctx.Err() at once for a
\* context that is already done.
StoreOK(p, ok) == ok /\ ~CtxDone(p)

\* The store itself failed a call that was made with a live context.
StoreFault(p, ok) == ~ok /\ ~CtxDone(p)

\* ------------------------------------------------------- Lease Coordinator
\* Unexpired with the expiry of a lease never looked at.
Unexpired_NeverExpires(t) == {l \in leases : l.task = t}

\* The lease rows of task t whose expiry lies in the future.
Unexpired(t) == {l \in leases : l.task = t /\ l.ttl > 0}

Holds(p, t) == \E l \in Unexpired(t) : l.holder = p

\* try_acquire: held iff no unexpired lease exists for the task.
TryLockTask(t) == Unexpired(t) = {}

LeasesAfterTryLock(t, p) ==
  IF TryLockTask(t)
  THEN {l \in leases : l.task # t} \cup {[task |-> t, holder |-> p, ttl |-> LeaseTTL]}
  ELSE leases

\* refresh: fails if the caller holds no unexpired lease.
RefreshLock(t, p) == Holds(p, t)

LeasesAfterRefresh(t, p) ==
  {IF l.task = t /\ l.holder = p /\ l.ttl > 0 THEN [l EXCEPT !.ttl = LeaseTTL] ELSE l
     : l \in leases}

\* Released with the holder of the lease not looked at.
Released_AnyHolder(ls, t, p) == {l \in ls : l.task # t}

\* The lease rows ls without the row of task t held by instance p.
Released(ls, t, p) == {l \in ls : ~(l.task = t /\ l.holder = p)}

\* release: deletes the lease if held by the calling instance; no error when
\* there is no such lease.
ReleaseLock(ls, t, p) == [leases |-> Released(ls, t, p), err |-> FALSE]

LeasesAfterRelease(t, p) == ReleaseLock(leases, t, p).leases

\* --------------------------------------------------------------- Task Store
RECURSIVE SortDesc(_)
\* ORDER BY start_time DESC
SortDesc(rows) ==
  IF rows = {} THEN <<>>
  ELSE LET newest == CHOOSE r \in rows : \A o \in rows : o.start <= r.start
       IN <<newest>> \o SortDesc(rows \ {newest})

ListTaskResults(t) == SortDesc({results[t][i] : i \in DOMAIN results[t]})

Statuses(rs) == [i \in DOMAIN rs |-> rs[i].status]

\* ----------------------------------------------------------- Dependency Gate
\* The result the gate reads from the list ListTaskResults returned.
LastResult(rs) == rs[Len(rs)]

DependencyCompleted(rs) ==
  Len(rs) > 0 /\ LastResult(rs).status = TaskStatusCompleted

\* --------------------------------------------------------- Schedule Registry
\* The zero cron.EntryID: no entry.
NoEntry == 0

\* NewScheduler: an empty entries map and a cron engine that is not running.
\* "started" is what Start has returned ("no": not called), "snap" the task
\* definition as it was when the live registration of a task was made.
EmptyRegistry ==
  [entries |-> [t \in Tasks |-> NoEntry], cron |-> {}, nextID |-> 1,
   running |-> FALSE, started |-> "no", snap |-> [t \in Tasks |-> NewTask(t)]]

\* ListTasks: every stored task, ORDER BY created_at DESC (B was created
\* after A, which it depends on).
ListTasks == <<"B", "A">>

\* ListTasks of a store that holds some of the tasks.
ListTasksOf(store) == SelectSeq(ListTasks, LAMBDA t : t \in DOMAIN store)

\* cron's parser accepts the schedule expression.
ParseOK(schedule) == schedule = "ok"

\* "Remove existing schedule if any": cron.Remove and delete(s.entries, id).
Unregistered(s, t) ==
  [s EXCEPT !.cron = {e \in @ : e.id # s.entries[t]}, !.entries[t] = NoEntry]

\* cron.AddFunc of a schedule that parses, and s.entries[task.ID] = entryID.
Added(s, o) ==
  [s EXCEPT !.cron = @ \cup {[id |-> s.nextID, task |-> o.id]},
            !.entries[o.id] = s.nextID, !.nextID = @ + 1, !.snap[o.id] = o.task]

\* Registered with the prior trigger of the task left in the cron engine.
Registered_KeepsPrior(s, o) ==
  IF ParseOK(o.task.schedule) THEN Added(s, o) ELSE s

\* The body of ScheduleTask, which runs with s.mu held from start to end: the
\* prior trigger of the task is removed, then the new one is added unless the
\* schedule does not parse.
Registered(s, o) ==
  IF ParseOK(o.task.schedule) THEN Added(Unregistered(s, o.id), o)
  ELSE Unregistered(s, o.id)

RECURSIVE ScheduleAll(_, _, _)
\* The loop of Start over the loaded tasks; it ends at the first error.
ScheduleAll(s, ids, store) ==
  IF ids = <<>> THEN [s |-> s, err |-> FALSE]
  ELSE LET o == [id |-> Head(ids), task |-> store[Head(ids)]]
       IN IF ParseOK(o.task.schedule)
          THEN ScheduleAll(Registered(s, o), Tail(ids), store)
          ELSE [s |-> Registered(s, o), err |-> TRUE]

\* StartOutcome with s.cron.Start() called before the loop's error is looked
\* at.
StartOutcome_StartsEngineAnyway(s, store, ok) ==
  IF ~ok THEN [s EXCEPT !.started = "error"]
  ELSE LET r == ScheduleAll(s, ListTasksOf(store), store)
       IN [r.s EXCEPT !.running = TRUE,
                      !.started = IF r.err THEN "error" ELSE "ok"]

\* The registry after Start: unchanged if ListTasks fails (ok is false), the
\* loop's registrations otherwise, and the cron engine started only if every
\* one of them succeeded.
StartOutcome(s, store, ok) ==
  IF ~ok THEN [s EXCEPT !.started = "error"]
  ELSE LET r == ScheduleAll(s, ListTasksOf(store), store)
       IN IF r.err THEN [r.s EXCEPT !.started = "error"]
          ELSE [r.s EXCEPT !.running = TRUE, !.started = "ok"]

\* The closures' task copies after Start.
CopiesAfterStart(copies, s, store) ==
  [t \in Tasks |-> IF s.entries[t] # NoEntry THEN store[t] ELSE copies[t]]

\* No ScheduleTask call has been made through the API.
NoCaller ==
  [id |-> NoTask, task |-> NewTask(NoTask), sharesDeps |-> FALSE,
   sharesHTTP |-> FALSE]

\* No ExecuteTaskNow call has been made on the peer. "obj" is the task object
\* the handler got from GetTask and passed in, "n" counts the calls.
IdleNow ==
  [task |-> NoTask, pc |-> "idle", obj |-> NewTask(NoTask),
   res |-> [status |-> "none", err |-> "", start |-> 0], err |-> FALSE, n |-> 0]

\* The three tables after InitSchema, empty.
EmptyDB == [tasks |-> {}, deps |-> {}, results |-> {}]

\* No storage call has been made.
NoCall == [op |-> "none", id |-> NoTask, err |-> FALSE, n |-> 0]

\* ------------------------------------------------------------------- Init
\* Every peer has started with the two tasks in the store.
Init ==
  /\ tasks = [t \in Tasks |-> NewTask(t)]
  /\ results = [t \in Tasks |-> <<>>]
  /\ leases = {}
  /\ reg = [p \in Peers |-> [t \in Tasks |-> NewTask(t)]]
  /\ fire = [p \in Peers |-> IdleFire]
  /\ obs = [p \in Peers |-> NoObs]
  /\ fired = [p \in Peers |-> [t \in Tasks |-> 0]]
  /\ seq = 0
  /\ sched = [p \in Peers |->
                StartOutcome(EmptyRegistry, [t \in Tasks |-> NewTask(t)], TRUE)]
  /\ caller = [p \in Peers |-> NoCaller]
  /\ now = [p \in Peers |-> IdleNow]
  /\ db = EmptyDB
  /\ ret = NoCall

\* ------------------------------------------------------- Execution Engine
RECURSIVE Sum(_, _)
Sum(f, S) ==
  IF S = {} THEN 0
  ELSE LET x == CHOOSE y \in S : TRUE IN f[x] + Sum(f, S \ {x})

Started == Sum([pt \in Peers \X Tasks |-> fired[pt[1]][pt[2]]], Peers \X Tasks)

\* AfterTryLock without the "if !locked { return }" check.
AfterTryLock_NoLockedCheck(lockRes, deps) ==
  IF Len(deps) > 0 THEN "deps" ELSE "exec"

\* AfterTryLock taking every leased fire through the "all dependencies
\* completed" test, which a task without dependencies has nothing to pass with.
AfterTryLock_EmptyListHolds(lockRes, deps) ==
  IF lockRes # "held" THEN "done"
  ELSE IF Len(deps) > 0 THEN "deps" ELSE "release"

\* executeTask after TryLockTask: an error or a lease held elsewhere ends the
\* fire; otherwise the dependency check comes first when there are any.
AfterTryLock(lockRes, deps) ==
  IF lockRes # "held" THEN "done"
  ELSE IF Len(deps) > 0 THEN "deps" ELSE "exec"

\* The trigger of task t fires on peer p: executeTask starts and calls
\* TryLockTask with the fire's own (never cancelled) context. On success the
\* timeout context, the ticker and the refresh goroutine are created.
ExecuteTaskBegin(p, t) ==
  /\ fire[p].pc \in {"idle", "done"}
  /\ fire[p].ref # "live"
  /\ Started < MaxFires
  /\ \E ok \in BOOLEAN :
       LET lockRes == IF ~ok THEN "error"
                      ELSE IF TryLockTask(t) THEN "held" ELSE "busy"
       IN /\ leases' = IF ok THEN LeasesAfterTryLock(t, p) ELSE leases
          /\ fire' = [fire EXCEPT ![p] =
               [IdleFire EXCEPT !.task = t, !.k = fired[p][t] + 1,
                  !.lockRes = lockRes,
                  !.pc = AfterTryLock(lockRes, reg[p][t].deps),
                  !.ref = IF lockRes = "held" THEN "live" ELSE "none"]]
  /\ fired' = [fired EXCEPT ![p][t] = @ + 1]
  /\ obs' = [obs EXCEPT ![p] = NoObs]
  /\ UNCHANGED <<tasks, results, reg, seq, sched, caller, now, db, ret>>

\* One round of the dependency loop: ListTaskResults for the next dependency
\* and the three early returns.
CheckDependency(p) ==
  /\ fire[p].pc = "deps"
  /\ LET t == fire[p].task
         deps == reg[p][t].deps
         rs == ListTaskResults(deps[fire[p].depIdx])
     IN \E ok \in BOOLEAN :
          LET read == StoreOK(p, ok)
              pass == read /\ DependencyCompleted(rs)
          IN /\ fire' = [fire EXCEPT ![p].pc =
                  IF ~pass THEN "release"
                  ELSE IF fire[p].depIdx = Len(deps) THEN "exec" ELSE "deps",
                  ![p].depIdx = IF pass THEN @ + 1 ELSE @]
             /\ obs' = [obs EXCEPT ![p].read = IF read THEN "ok" ELSE "error",
                  ![p].seen = IF read THEN Statuses(rs) ELSE <<>>,
                  ![p].gate = IF pass THEN "proceed" ELSE "hold",
                  ![p].fault = @ \/ StoreFault(p, ok)]
  /\ UNCHANGED <<tasks, results, leases, reg, fired, seq, sched, caller, now, db, ret>>

\* worker.ExecuteTask is entered: the result is created with status running
\* and StartTime = time.Now(), and the executor goroutine is started.
Dispatch(p) ==
  /\ fire[p].pc = "exec"
  /\ seq' = seq + 1
  /\ fire' = [fire EXCEPT ![p].pc = "running",
       ![p].res = [status |-> TaskStatusRunning, err |-> "", start |-> seq + 1]]
  /\ obs' = [obs EXCEPT ![p].nDispatch = @ + 1]
  /\ UNCHANGED <<tasks, results, leases, reg, fired, sched, caller, now, db, ret>>

\* No time passes in a fire once the executor has returned (see Tick): of the
\* time elapsed only whether the deadline has passed is kept from then on.
Deadline(p) == IF CtxDone(p) THEN TimeoutTicks ELSE 0

\* The executor makes a network call: the type is supported and the HTTP
\* configuration is there.
NetworkCall(task) == task.type = TaskTypeHTTP /\ task.http # NoHTTP

\* Outcomes with a default case of the type switch that sets no error.
Outcomes_SilentNoOp(task) ==
  IF NetworkCall(task) THEN {TaskStatusCompleted, TaskStatusFailed}
  ELSE {TaskStatusCompleted}

\* What the executor goroutine can end with: only a request that was made can
\* succeed.
Outcomes(task) ==
  IF NetworkCall(task) THEN {TaskStatusCompleted, TaskStatusFailed}
  ELSE {TaskStatusFailed}

\* execErr of the executor goroutine when it fails.
ExecError(task) ==
  IF task.type # TaskTypeHTTP THEN "unsupported task type"
  ELSE IF task.http = NoHTTP THEN "HTTP config is required"
  ELSE "exec"

\* AfterExecute with the execution repeated after a failure.
AfterExecute_RetryOnFailure(st) ==
  IF st = TaskStatusFailed THEN "exec" ELSE "store"

\* executeTask after worker.ExecuteTask returned: whatever the result's
\* status, the result is stored next.
AfterExecute(st) == "store"

\* The executor goroutine closes done: completed, or failed with its error.
ExecutorReturns(p) ==
  /\ fire[p].pc = "running"
  /\ \E st \in Outcomes(reg[p][fire[p].task]) :
       fire' = [fire EXCEPT ![p].pc = AfterExecute(st), ![p].res.status = st,
         ![p].elapsed = Deadline(p),
         ![p].res.err = IF st = TaskStatusFailed
                        THEN ExecError(reg[p][fire[p].task]) ELSE ""]
  /\ UNCHANGED <<tasks, results, leases, reg, obs, fired, seq, sched, caller, now, db, ret>>

\* TimeoutStatus with the result returned as worker.ExecuteTask created it.
TimeoutStatus_LeftRunning == TaskStatusRunning

\* The status the <-ctx.Done() case gives the result. The executor goroutine,
\* which may still be running, writes output and execErr only, never the result.
TimeoutStatus == TaskStatusFailed

\* The select takes <-ctx.Done(): failed, with ctx.Err() as the error.
ExecutorTimeout(p) ==
  /\ fire[p].pc = "running"
  /\ CtxDone(p)
  /\ fire' = [fire EXCEPT ![p].pc = "store", ![p].res.status = TimeoutStatus,
       ![p].res.err = "timeout", ![p].elapsed = Deadline(p)]
  /\ obs' = [obs EXCEPT ![p].timedOut = TRUE]
  /\ UNCHANGED <<tasks, results, leases, reg, fired, seq, sched, caller, now, db, ret>>

\* AfterCreate with the release not deferred: the error return skips it.
AfterCreate_ReturnSkipsRelease(stored) == IF stored THEN "update" ELSE "return"

\* After CreateTaskResult: an error is logged and the function returns (into
\* the deferred calls).
AfterCreate(stored) == IF stored THEN "update" ELSE "release"

\* A result without metadata.
NoMetadata == "none"

\* result.Metadata["instance_id"] = s.instanceID
Metadata(p) == p

\* What the INSERT of CreateTaskResult keeps of result.Metadata: it binds id,
\* task_id, status, output, error, start_time, end_time and version, the
\* columns task_results has.
InsertedMetadata(metadata) == NoMetadata

\* The row CreateTaskResult inserts for a fire. "inst" and "k" stand for the
\* row's id: the peer that made it and the number of its fire.
ResultRow(p) ==
  [status |-> fire[p].res.status, err |-> fire[p].res.err,
   start |-> fire[p].res.start, inst |-> p, k |-> fire[p].k,
   metadata |-> InsertedMetadata(Metadata(p))]

\* s.storage.CreateTaskResult(taskCtx, result); task_results.task_id references
\* tasks(id), so the insert fails for a task that has no row.
CreateTaskResult(p) ==
  /\ fire[p].pc = "store"
  /\ \E ok \in BOOLEAN :
       LET stored == StoreOK(p, ok) /\ fire[p].task \in DOMAIN tasks
       IN /\ results' = IF stored
                        THEN [results EXCEPT ![fire[p].task] = Append(@, ResultRow(p))]
                        ELSE results
          /\ fire' = [fire EXCEPT ![p].pc = AfterCreate(stored)]
          /\ obs' = [obs EXCEPT ![p].nCreate = @ + 1, ![p].created = stored,
               ![p].fault = @ \/ StoreFault(p, ok)]
  /\ UNCHANGED <<tasks, leases, reg, fired, seq, sched, caller, now, db, ret>>

\* task.Status = result.Status on the trigger's task copy, then
\* s.storage.UpdateTask(taskCtx, task), which writes every column of the row
\* from that copy (and fails, no row affected, if the task has none).
UpdateTask(p) ==
  /\ fire[p].pc = "update"
  /\ LET t == fire[p].task
         copy == [reg[p][t] EXCEPT !.status = fire[p].res.status]
     IN /\ reg' = [reg EXCEPT ![p][t] = copy]
        /\ \E ok \in BOOLEAN :
             /\ tasks' = IF StoreOK(p, ok) /\ t \in DOMAIN tasks
                         THEN [tasks EXCEPT ![t] = copy] ELSE tasks
             /\ obs' = [obs EXCEPT ![p].nUpdate = @ + 1,
                  ![p].fault = @ \/ StoreFault(p, ok)]
  /\ fire' = [fire EXCEPT ![p].pc = "release"]
  /\ UNCHANGED <<results, leases, fired, seq, sched, caller, now, db, ret>>

\* The deferred s.storage.ReleaseLock(taskCtx, task.ID, s.instanceID): it runs
\* first of the three deferred calls, before the ticker is stopped and before
\* the context is cancelled.
ReleaseLockCall(p) ==
  /\ fire[p].pc = "release"
  /\ LET t == fire[p].task
     IN \E ok \in BOOLEAN :
          /\ leases' = IF StoreOK(p, ok) THEN LeasesAfterRelease(t, p) ELSE leases
          /\ obs' = [obs EXCEPT ![p].nRelease = @ + 1,
               ![p].unheldLockOp = @ \/ ~Holds(p, t),
               ![p].fault = @ \/ StoreFault(p, ok)]
  /\ fire' = [fire EXCEPT ![p].pc = "return"]
  /\ UNCHANGED <<tasks, results, reg, fired, seq, sched, caller, now, db, ret>>

\* AfterFire with the trigger of a task whose fire failed taken out of the
\* cron engine.
AfterFire_DropsFailedTrigger(s, t, failed) ==
  IF failed THEN Unregistered(s, t) ELSE s

\* The registry when the trigger's func() returns: executeTask returns
\* nothing to the closure, which returns nothing to the cron engine, so the
\* entry stays as it is whatever the fire did.
AfterFire(s, t, failed) == s

\* The remaining deferred calls, lockRefreshTicker.Stop() and cancel(), and
\* the return of executeTask. A tick already in the channel stays there.
Return(p) ==
  /\ fire[p].pc = "return"
  /\ fire' = [fire EXCEPT ![p].pc = "done", ![p].elapsed = 0, ![p].depIdx = 1,
       ![p].res = IdleFire.res]
  /\ obs' = [obs EXCEPT ![p] = [NoObs EXCEPT !.nCreate = obs[p].nCreate]]
  /\ sched' = [sched EXCEPT ![p] =
       AfterFire(@, fire[p].task,
                 fire[p].res.status # TaskStatusCompleted \/ ~obs[p].created
                   \/ obs[p].fault)]
  /\ UNCHANGED <<tasks, results, leases, reg, fired, seq, caller, now, db, ret>>

\* The refresh goroutine receives a tick and calls RefreshLock(taskCtx, ...);
\* an error ends the goroutine.
RefreshLockCall(p) ==
  /\ fire[p].ref = "live"
  /\ fire[p].tick
  /\ LET t == fire[p].task
     IN /\ \E ok \in BOOLEAN :
             LET done == StoreOK(p, ok) /\ RefreshLock(t, p)
             IN /\ leases' = IF done THEN LeasesAfterRefresh(t, p) ELSE leases
                /\ fire' = [fire EXCEPT ![p].tick = FALSE,
                     ![p].ref = IF done THEN "live" ELSE "stopped"]
                /\ obs' = IF fire[p].pc = "done" THEN obs
                   ELSE [obs EXCEPT ![p].refreshAfterRelease = @ \/ obs[p].nRelease > 0,
                          ![p].unheldLockOp = @ \/ ~Holds(p, t),
                          ![p].fault = @ \/ StoreFault(p, ok),
                          ![p].lost = @ \/ (/\ obs[p].nRelease = 0
                                             /\ StoreOK(p, ok)
                                             /\ ~RefreshLock(t, p))]
  /\ UNCHANGED <<tasks, results, reg, fired, seq, sched, caller, now, db, ret>>

\* The refresh goroutine takes <-taskCtx.Done() and returns.
RefreshLoopExit(p) ==
  /\ fire[p].ref = "live"
  /\ CtxDone(p)
  /\ fire' = [fire EXCEPT ![p].ref = "stopped", ![p].tick = FALSE]
  /\ UNCHANGED <<tasks, results, leases, reg, obs, fired, seq, sched, caller, now, db, ret>>

\* --------------------------------------------------------------------- time
TickerRunning(p) ==
  fire[p].lockRes = "held" /\ fire[p].pc \notin {"done", "crashed"}

\* A goroutine of peer p has an event to take: the refresh loop a tick, the
\* executor's select the end of the timeout context.
Pending(p) ==
  \/ fire[p].ref = "live" /\ fire[p].tick
  \/ fire[p].pc = "running" /\ CtxDone(p)
  \/ fire[p].pc = "running" /\ ~NetworkCall(reg[p][fire[p].task])

\* 10 seconds pass: every running ticker delivers a tick, every live context
\* gets 10 s closer to its deadline, every lease 10 s closer to its expiry.
\* Time is spent in the executor's network call and between fires; the other
\* steps of a fire take no time at this scale, and a goroutine that is alive
\* takes a pending event before the next 10 s are over (see Stall for a peer
\* that does not).
Tick ==
  /\ \A p \in Peers : fire[p].pc \in {"idle", "running", "done", "crashed"}
  /\ \A p \in Peers : ~Pending(p)
  /\ \/ \E p \in Peers : TickerRunning(p)
     \/ \E l \in leases : l.ttl > 0
  /\ fire' = [p \in Peers |->
       IF TickerRunning(p)
       THEN [fire[p] EXCEPT
               !.tick = (fire[p].ref = "live" /\ (fire[p].elapsed + 1) % TickerTicks = 0),
               !.elapsed = IF @ < TimeoutTicks THEN @ + 1 ELSE @]
       ELSE fire[p]]
  /\ leases' = {[l EXCEPT !.ttl = IF @ > 0 THEN @ - 1 ELSE 0] : l \in leases}
  /\ UNCHANGED <<tasks, results, reg, obs, fired, seq, sched, caller, now, db, ret>>

Next ==
  \/ \E p \in Peers, t \in Tasks : ExecuteTaskBegin(p, t)
  \/ \E p \in Peers : CheckDependency(p)
  \/ \E p \in Peers : Dispatch(p)
  \/ \E p \in Peers : ExecutorReturns(p)
  \/ \E p \in Peers : ExecutorTimeout(p)
  \/ \E p \in Peers : CreateTaskResult(p)
  \/ \E p \in Peers : UpdateTask(p)
  \/ \E p \in Peers : ReleaseLockCall(p)
  \/ \E p \in Peers : Return(p)
  \/ \E p \in Peers : RefreshLockCall(p)
  \/ \E p \in Peers : RefreshLoopExit(p)
  \/ Tick

Spec == Init /\ [][Next]_vars

\* ------------------------------------------------------------------ crash
\* The process of peer p dies while its fire holds the task's lease: none of
\* its goroutines takes another step, the lease row stays in the store.
Crash(p) ==
  /\ fire[p].lockRes = "held"
  /\ fire[p].pc \in {"deps", "exec", "running", "store", "update", "release"}
  /\ Holds(p, fire[p].task)
  /\ fire' = [fire EXCEPT ![p] =
       [IdleFire EXCEPT !.task = fire[p].task, !.k = fire[p].k,
          !.lockRes = "held", !.pc = "crashed", !.ref = "stopped"]]
  /\ obs' = [obs EXCEPT ![p] = NoObs]
  /\ UNCHANGED <<tasks, results, leases, reg, fired, seq, sched, caller, now, db, ret>>

\* The task whose fires the peers race for while one of them may crash.
CrashTask == "A"

NextCrash ==
  \/ \E p \in Peers : ExecuteTaskBegin(p, CrashTask)
  \/ \E p \in Peers : Dispatch(p)
  \/ \E p \in Peers : ExecutorReturns(p)
  \/ \E p \in Peers : ExecutorTimeout(p)
  \/ \E p \in Peers : CreateTaskResult(p)
  \/ \E p \in Peers : UpdateTask(p)
  \/ \E p \in Peers : ReleaseLockCall(p)
  \/ \E p \in Peers : Return(p)
  \/ \E p \in Peers : RefreshLockCall(p)
  \/ \E p \in Peers : RefreshLoopExit(p)
  \/ Tick
  \/ \E p \in Peers : Crash(p)

\* A step of a goroutine of peer p that is running a fire.
Step(p) ==
  \/ CheckDependency(p)
  \/ Dispatch(p)
  \/ ExecutorReturns(p)
  \/ ExecutorTimeout(p)
  \/ CreateTaskResult(p)
  \/ UpdateTask(p)
  \/ ReleaseLockCall(p)
  \/ Return(p)
  \/ RefreshLockCall(p)
  \/ RefreshLoopExit(p)

\* Time passes, and the Go scheduler runs every goroutine that can run.
Fairness == WF_vars(Tick) /\ \A p \in Peers : WF_vars(Step(p))

SpecCrash == Init /\ [][NextCrash]_vars /\ Fairness

\* ---------------------------------------------------------------- suspension
\* The peers are suspended for 10 s (a paused virtual machine, a stopped
\* process): the store's clock goes on and every lease gets 10 s closer to its
\* expiry, while the peers' monotonic clocks, which drive taskCtx and the
\* ticker, stand still.
Suspended ==
  /\ \A p \in Peers : fire[p].pc \in {"idle", "running", "done", "crashed"}
  /\ \E p \in Peers : fire[p].pc = "running"
  /\ \E l \in leases : l.ttl > 0
  /\ leases' = {[l EXCEPT !.ttl = IF @ > 0 THEN @ - 1 ELSE 0] : l \in leases}
  /\ UNCHANGED <<tasks, results, reg, fire, obs, fired, seq, sched, caller, now, db, ret>>

NextSuspend ==
  \/ Next
  \/ Suspended

SpecSuspend == Init /\ [][NextSuspend]_vars

\* -------------------------------------------------------------- task types
\* Task A was stored with a type tag and an HTTP configuration of any kind:
\* an HTTP task, an HTTP task without configuration, a task of another type.
InitTypes ==
  \E ty \in {TaskTypeHTTP, "shell"} : \E cfg \in {"u1", NoHTTP} :
    LET loaded == [t \in Tasks |->
                     IF t = "A" THEN [NewTask(t) EXCEPT !.type = ty, !.http = cfg]
                     ELSE NewTask(t)]
    IN /\ tasks = loaded
       /\ results = [t \in Tasks |-> <<>>]
       /\ leases = {}
       /\ reg = [p \in Peers |-> loaded]
       /\ fire = [p \in Peers |-> IdleFire]
       /\ obs = [p \in Peers |-> NoObs]
       /\ fired = [p \in Peers |-> [t \in Tasks |-> 0]]
       /\ seq = 0
       /\ sched = [p \in Peers |-> StartOutcome(EmptyRegistry, loaded, TRUE)]
       /\ caller = [p \in Peers |-> NoCaller]
       /\ now = [p \in Peers |-> IdleNow]
       /\ db = EmptyDB
       /\ ret = NoCall

SpecTypes == InitTypes /\ [][Next]_vars

\* The peers were restarted after an earlier instance ran task A once: A has
\* one result, completed or failed, its stored status mirrors it, and every
\* peer's copy was loaded from the store at Start.
EarlierResult(st) ==
  [status |-> st, err |-> IF st = TaskStatusFailed THEN "exec" ELSE "",
   start |-> 0, inst |-> "p0", k |-> 0,
   metadata |-> InsertedMetadata(Metadata("p0"))]

InitDeps ==
  \E st \in {TaskStatusCompleted, TaskStatusFailed} :
    LET loaded == [t \in Tasks |->
                     IF t = "A" THEN [NewTask(t) EXCEPT !.status = st] ELSE NewTask(t)]
    IN /\ tasks = loaded
       /\ results = [t \in Tasks |-> IF t = "A" THEN <<EarlierResult(st)>> ELSE <<>>]
       /\ leases = {}
       /\ reg = [p \in Peers |-> loaded]
       /\ fire = [p \in Peers |-> IdleFire]
       /\ obs = [p \in Peers |-> NoObs]
       /\ fired = [p \in Peers |-> [t \in Tasks |-> 0]]
       /\ seq = 0
       /\ sched = [p \in Peers |-> StartOutcome(EmptyRegistry, loaded, TRUE)]
       /\ caller = [p \in Peers |-> NoCaller]
       /\ now = [p \in Peers |-> IdleNow]
       /\ db = EmptyDB
       /\ ret = NoCall

SpecDeps == InitDeps /\ [][Next]_vars

\* ------------------------------------------------------- registry operations
\* The peer whose registry is operated on.
RegPeer == "p1"

\* The task objects the API handlers bind from a request and pass to
\* ScheduleTask: a task of the store, with a schedule that parses or not.
Requests ==
  {[id |-> t, task |-> [NewTask(t) EXCEPT !.schedule = sc]] :
     t \in Tasks, sc \in {"ok", "bad"}}

\* No fire of task t is running on peer p.
Quiet(p, t) ==
  fire[p].task = t => fire[p].pc \in {"idle", "done"} /\ fire[p].ref # "live"

\* Start: ListTasks, ScheduleTask for each task, cron.Start().
Start(p) ==
  /\ sched[p].started = "no"
  /\ \A t \in Tasks : Quiet(p, t)
  /\ \E ok \in BOOLEAN :
       LET s == StartOutcome(sched[p], tasks, ok)
       IN /\ sched' = [sched EXCEPT ![p] = s]
          /\ reg' = [reg EXCEPT ![p] =
               IF ok THEN CopiesAfterStart(@, s, tasks) ELSE @]
  /\ UNCHANGED <<tasks, results, leases, fire, obs, fired, seq, caller, now, db, ret>>

\* ScheduleTask called by an API handler with the task object o. taskCopy is
\* a shallow copy (taskCopy := *task): the copy has the caller's Dependencies
\* slice and the caller's Config.HTTP pointer. A fire of the task's prior
\* trigger that is still running keeps the prior closure's copy, so the call
\* is taken between fires of the task.
ScheduleTask(p, o) ==
  /\ sched[p].nextID <= MaxRegistrations
  /\ Quiet(p, o.id)
  /\ sched' = [sched EXCEPT ![p] = Registered(@, o)]
  /\ reg' = IF ParseOK(o.task.schedule)
             THEN [reg EXCEPT ![p][o.id] = o.task] ELSE reg
  /\ caller' = [caller EXCEPT ![p] =
       [id |-> o.id, task |-> o.task,
        sharesDeps |-> ParseOK(o.task.schedule) /\ Len(o.task.deps) > 0,
        sharesHTTP |-> ParseOK(o.task.schedule) /\ o.task.http # NoHTTP]]
  /\ UNCHANGED <<tasks, results, leases, fire, obs, fired, seq, now, db, ret>>

\* RemoveTask, with s.mu held from start to end.
RemoveTask(p, t) ==
  /\ sched' = [sched EXCEPT ![p] = Unregistered(@, t)]
  /\ sched'[p] # sched[p]
  /\ UNCHANGED <<tasks, results, leases, reg, fire, obs, fired, seq, caller, now, db, ret>>

\* The caller writes an element of its task's dependency list in place
\* (task.Dependencies[0] = id): the write lands in the backing array, which
\* the registered copy shares.
CallerSetsDependency(p) ==
  /\ caller[p].id # NoTask
  /\ Len(caller[p].task.deps) > 0
  /\ caller[p].task.deps[1] # caller[p].id
  /\ caller' = [caller EXCEPT ![p].task.deps[1] = caller[p].id]
  /\ reg' = IF caller[p].sharesDeps
             THEN [reg EXCEPT ![p][caller[p].id].deps[1] = caller[p].id]
             ELSE reg
  /\ UNCHANGED <<tasks, results, leases, fire, obs, fired, seq, sched, now, db, ret>>

\* The caller writes a field of its task's HTTP configuration
\* (task.Config.HTTP.URL = url): the write goes through the pointer, which the
\* registered copy shares.
CallerSetsURL(p) ==
  /\ caller[p].id # NoTask
  /\ caller[p].task.http = "u1"
  /\ caller' = [caller EXCEPT ![p].task.http = "u2"]
  /\ reg' = IF caller[p].sharesHTTP
             THEN [reg EXCEPT ![p][caller[p].id].http = "u2"]
             ELSE reg
  /\ UNCHANGED <<tasks, results, leases, fire, obs, fired, seq, sched, now, db, ret>>

\* The caller assigns a value field of its task (task.Status = ...): the
\* registered copy has its own.
CallerSetsStatus(p) ==
  /\ caller[p].id # NoTask
  /\ caller[p].task.status = TaskStatusPending
  /\ caller' = [caller EXCEPT ![p].task.status = TaskStatusRunning]
  /\ UNCHANGED <<tasks, results, leases, reg, fire, obs, fired, seq, sched, now, db, ret>>

\* The cron engine, running, fires the trigger of task t: the closure calls
\* executeTask with its task copy.
TriggerFires(p, t) ==
  /\ sched[p].running
  /\ \E e \in sched[p].cron : e.task = t
  /\ ExecuteTaskBegin(p, t)

NextReg ==
  \/ Start(RegPeer)
  \/ \E o \in Requests : ScheduleTask(RegPeer, o)
  \/ \E t \in Tasks : RemoveTask(RegPeer, t)
  \/ \E t \in Tasks : TriggerFires(RegPeer, t)
  \/ CheckDependency(RegPeer)
  \/ Dispatch(RegPeer)
  \/ ExecutorReturns(RegPeer)
  \/ CreateTaskResult(RegPeer)
  \/ UpdateTask(RegPeer)
  \/ ReleaseLockCall(RegPeer)
  \/ Return(RegPeer)
  \/ RefreshLoopExit(RegPeer)

\* The peers have been constructed and none has started; the store holds the
\* two tasks, each with a schedule expression that parses or does not.
InitReg ==
  \E bad \in SUBSET Tasks :
    /\ tasks = [t \in Tasks |->
                  [NewTask(t) EXCEPT !.schedule = IF t \in bad THEN "bad" ELSE "ok"]]
    /\ results = [t \in Tasks |-> <<>>]
    /\ leases = {}
    /\ reg = [p \in Peers |-> [t \in Tasks |-> NewTask(t)]]
    /\ fire = [p \in Peers |-> IdleFire]
    /\ obs = [p \in Peers |-> NoObs]
    /\ fired = [p \in Peers |-> [t \in Tasks |-> 0]]
    /\ seq = 0
    /\ sched = [p \in Peers |-> EmptyRegistry]
    /\ caller = [p \in Peers |-> NoCaller]
    /\ now = [p \in Peers |-> IdleNow]
    /\ db = EmptyDB
    /\ ret = NoCall

\* The registry of one peer under Start, the API's calls and its triggers'
\* fires; every fire is over before its first 10 s have passed.
SpecReg == InitReg /\ [][NextReg]_vars

\* One peer that has started, the API's ScheduleTask calls, what the callers
\* do with their task objects afterwards, and the triggers' fires.
NextCaller ==
  \/ \E o \in Requests : ScheduleTask(RegPeer, o)
  \/ CallerSetsDependency(RegPeer)
  \/ CallerSetsURL(RegPeer)
  \/ CallerSetsStatus(RegPeer)
  \/ \E t \in Tasks : TriggerFires(RegPeer, t)
  \/ CheckDependency(RegPeer)
  \/ Dispatch(RegPeer)
  \/ ExecutorReturns(RegPeer)
  \/ CreateTaskResult(RegPeer)
  \/ UpdateTask(RegPeer)
  \/ ReleaseLockCall(RegPeer)
  \/ Return(RegPeer)
  \/ RefreshLoopExit(RegPeer)

SpecCaller == Init /\ [][NextCaller]_vars

\* -------------------------------------------------------- manual invocation
\* ExecuteTaskNow calls served in a run, over all peers.
MaxInvokes == 1

Invoked == Sum([p \in Peers |-> now[p].n], Peers)

\* The row CreateTaskResult inserts for a manual invocation (no fire: k = 0).
NowResultRow(p) ==
  [status |-> now[p].res.status, err |-> now[p].res.err,
   start |-> now[p].res.start, inst |-> p, k |-> 0,
   metadata |-> InsertedMetadata(Metadata(p))]

\* handleInvokeTask: GetTask, then ExecuteTaskNow with the task it returned.
\* ExecuteTaskNow copies the task, derives the 30 s context and enters
\* worker.ExecuteTask with the copy; it makes no call to the lease operations.
ExecuteTaskNowBegin(p, t) ==
  /\ now[p].pc \in {"idle", "done"}
  /\ Invoked < MaxInvokes
  /\ t \in DOMAIN tasks
  /\ seq' = seq + 1
  /\ now' = [now EXCEPT ![p] =
       [IdleNow EXCEPT !.task = t, !.pc = "running", !.obj = tasks[t],
          !.res = [status |-> TaskStatusRunning, err |-> "", start |-> seq + 1],
          !.n = now[p].n + 1]]
  /\ UNCHANGED <<tasks, results, leases, reg, fire, obs, fired, sched, caller, db, ret>>

\* The executor goroutine closes done.
NowExecutorReturns(p) ==
  /\ now[p].pc = "running"
  /\ \E st \in Outcomes(now[p].obj) :
       now' = [now EXCEPT ![p].pc = "store", ![p].res.status = st,
         ![p].res.err = IF st = TaskStatusFailed THEN ExecError(now[p].obj) ELSE ""]
  /\ UNCHANGED <<tasks, results, leases, reg, fire, obs, fired, seq, sched, caller, db, ret>>

\* s.storage.CreateTaskResult(execCtx, result); an error is returned to the
\* handler.
NowCreateTaskResult(p) ==
  /\ now[p].pc = "store"
  /\ \E ok \in BOOLEAN :
       LET stored == ok /\ now[p].task \in DOMAIN tasks
       IN /\ results' = IF stored
                        THEN [results EXCEPT ![now[p].task] = Append(@, NowResultRow(p))]
                        ELSE results
          /\ now' = [now EXCEPT ![p].pc = IF stored THEN "update" ELSE "done",
               ![p].err = ~stored]
  /\ UNCHANGED <<tasks, leases, reg, fire, obs, fired, seq, sched, caller, db, ret>>

\* task.Status = result.Status on the object the handler passed in, then
\* s.storage.UpdateTask(execCtx, task), which writes every column of the row
\* from that object; then ExecuteTaskNow returns.
NowUpdateTask(p) ==
  /\ now[p].pc = "update"
  /\ LET t == now[p].task
         obj == [now[p].obj EXCEPT !.status = now[p].res.status]
     IN \E ok \in BOOLEAN :
          LET stored == ok /\ t \in DOMAIN tasks
          IN /\ tasks' = IF stored THEN [tasks EXCEPT ![t] = obj] ELSE tasks
             /\ now' = [now EXCEPT ![p].pc = "done", ![p].obj = obj,
                  ![p].err = ~stored]
  /\ UNCHANGED <<results, leases, reg, fire, obs, fired, seq, sched, caller, db, ret>>

\* The task that is invoked by hand while its trigger fires.
NowTask == "A"

\* Scheduled fires and manual invocations of one task on every peer; every
\* execution is over before its first 10 s have passed.
NextManual ==
  \/ \E p \in Peers : ExecuteTaskBegin(p, NowTask)
  \/ \E p \in Peers : Dispatch(p)
  \/ \E p \in Peers : ExecutorReturns(p)
  \/ \E p \in Peers : CreateTaskResult(p)
  \/ \E p \in Peers : UpdateTask(p)
  \/ \E p \in Peers : ReleaseLockCall(p)
  \/ \E p \in Peers : Return(p)
  \/ \E p \in Peers : RefreshLoopExit(p)
  \/ \E p \in Peers : ExecuteTaskNowBegin(p, NowTask)
  \/ \E p \in Peers : NowExecutorReturns(p)
  \/ \E p \in Peers : NowCreateTaskResult(p)
  \/ \E p \in Peers : NowUpdateTask(p)

SpecManual == Init /\ [][NextManual]_vars

\* ---------------------------------------------------------------------- API
\* Requests the API serves in a run, over all peers.
MaxRequests == 2

\* The task objects BindJSON makes of a request body: any id, version and
\* status the client cares to send (a body without "version" binds 0), with
\* a schedule that parses.
Bodies ==
  {[id |-> t, task |-> [NewTask(t) EXCEPT !.version = v, !.status = st]] :
     t \in Tasks, v \in {0, 1}, st \in {TaskStatusPending, TaskStatusRunning}}

\* task_dependencies.dependency_id references tasks(id): every dependency of
\* the task object has a row (its own row is one).
DependenciesStored(store, o) ==
  \A i \in DOMAIN o.task.deps : o.task.deps[i] \in DOMAIN store \cup {o.id}

\* A row of task_dependencies of another task names the task as dependency.
Referenced(store, id) ==
  \E u \in DOMAIN store \ {id} : \E i \in DOMAIN store[u].deps : store[u].deps[i] = id

\* The tasks table with the row of task id inserted.
Inserted(store, id, row) ==
  [t \in DOMAIN store \cup {id} |-> IF t = id THEN row ELSE store[t]]

\* The tasks table with the row of task id deleted.
Deleted(store, id) == [t \in DOMAIN store \ {id} |-> store[t]]

\* uuid.New(): an id that no row, trigger or result has.
Fresh(id) ==
  /\ id \notin DOMAIN tasks
  /\ results[id] = <<>>
  /\ \A q \in Peers : sched[q].entries[id] = NoEntry /\ Quiet(q, id)

\* What the ScheduleTask call of a handler leaves as the caller's record.
CallerOf(o) ==
  [id |-> o.id, task |-> o.task,
   sharesDeps |-> ParseOK(o.task.schedule) /\ Len(o.task.deps) > 0,
   sharesHTTP |-> ParseOK(o.task.schedule) /\ o.task.http # NoHTTP]

\* handleCreateTask on peer p: the id, status pending and version 1 are set,
\* then storage.CreateTask, then ScheduleTask on this peer's scheduler. An
\* error of CreateTask ends the handler.
handleCreateTask(p, body) ==
  /\ ret.n < MaxRequests
  /\ sched[p].nextID <= MaxRegistrations
  /\ Fresh(body.id)
  /\ LET o == [id |-> body.id,
               task |-> [body.task EXCEPT !.status = TaskStatusPending,
                                          !.version = 1]]
     IN \E ok \in BOOLEAN :
          LET created == ok /\ DependenciesStored(tasks, o)
          IN /\ tasks' = IF created THEN Inserted(tasks, o.id, o.task) ELSE tasks
             /\ sched' = IF created THEN [sched EXCEPT ![p] = Registered(@, o)]
                         ELSE sched
             /\ reg' = IF created /\ ParseOK(o.task.schedule)
                       THEN [reg EXCEPT ![p][o.id] = o.task] ELSE reg
             /\ caller' = IF created THEN [caller EXCEPT ![p] = CallerOf(o)]
                          ELSE caller
             /\ ret' = [op |-> "CreateTask", id |-> o.id, err |-> ~created,
                        n |-> ret.n + 1]
  /\ UNCHANGED <<results, leases, fire, obs, fired, seq, now, db>>

\* handleUpdateTask on peer p: task.Version++ on the bound object, then
\* storage.UpdateTask, which writes the row's columns and the dependency rows
\* from that object and fails if no row has its id, then ScheduleTask on this
\* peer's scheduler. An error of UpdateTask ends the handler.
handleUpdateTask(p, body) ==
  /\ ret.n < MaxRequests
  /\ sched[p].nextID <= MaxRegistrations
  /\ Quiet(p, body.id)
  /\ LET o == [id |-> body.id, task |-> [body.task EXCEPT !.version = @ + 1]]
     IN \E ok \in BOOLEAN :
          LET updated == /\ ok /\ o.id \in DOMAIN tasks
                         /\ DependenciesStored(tasks, o)
          IN /\ tasks' = IF updated THEN [tasks EXCEPT ![o.id] = o.task] ELSE tasks
             /\ sched' = IF updated THEN [sched EXCEPT ![p] = Registered(@, o)]
                         ELSE sched
             /\ reg' = IF updated /\ ParseOK(o.task.schedule)
                       THEN [reg EXCEPT ![p][o.id] = o.task] ELSE reg
             /\ caller' = IF updated THEN [caller EXCEPT ![p] = CallerOf(o)]
                          ELSE caller
             /\ ret' = [op |-> "UpdateTask", id |-> o.id, err |-> ~updated,
                        n |-> ret.n + 1]
  /\ UNCHANGED <<results, leases, fire, obs, fired, seq, now, db>>

\* handleDeleteTask on peer p: RemoveTask on this peer's scheduler, then
\* storage.DeleteTask, which fails if the task has no row or if a dependency
\* row of another task references it.
handleDeleteTask(p, id) ==
  /\ ret.n < MaxRequests
  /\ sched' = [sched EXCEPT ![p] = Unregistered(@, id)]
  /\ \E ok \in BOOLEAN :
       LET deleted == ok /\ id \in DOMAIN tasks /\ ~Referenced(tasks, id)
       IN /\ tasks' = IF deleted THEN Deleted(tasks, id) ELSE tasks
          /\ results' = IF deleted THEN [results EXCEPT ![id] = <<>>] ELSE results
          /\ ret' = [op |-> "DeleteTask", id |-> id, err |-> ~deleted,
                     n |-> ret.n + 1]
  /\ UNCHANGED <<leases, reg, fire, obs, fired, seq, caller, now, db>>

\* The peer whose triggers fire while the API is served.
FirePeer == "p2"

\* Every peer serves the API, and the triggers of one peer fire; every fire
\* is over before its first 10 s have passed.
NextAPI ==
  \/ \E p \in Peers, body \in Bodies : handleCreateTask(p, body)
  \/ \E p \in Peers, body \in Bodies : handleUpdateTask(p, body)
  \/ \E p \in Peers, t \in Tasks : handleDeleteTask(p, t)
  \/ \E t \in Tasks : TriggerFires(FirePeer, t)
  \/ CheckDependency(FirePeer)
  \/ Dispatch(FirePeer)
  \/ ExecutorReturns(FirePeer)
  \/ CreateTaskResult(FirePeer)
  \/ UpdateTask(FirePeer)
  \/ ReleaseLockCall(FirePeer)
  \/ Return(FirePeer)
  \/ RefreshLoopExit(FirePeer)

\* The store holds task A, or A and B, and every peer has started on it.
InitAPI ==
  \E S \in {{"A"}, Tasks} :
    LET store == [t \in S |-> NewTask(t)]
    IN /\ tasks = store
       /\ results = [t \in Tasks |-> <<>>]
       /\ leases = {}
       /\ reg = [p \in Peers |-> [t \in Tasks |-> NewTask(t)]]
       /\ fire = [p \in Peers |-> IdleFire]
       /\ obs = [p \in Peers |-> NoObs]
       /\ fired = [p \in Peers |-> [t \in Tasks |-> 0]]
       /\ seq = 0
       /\ sched = [p \in Peers |-> StartOutcome(EmptyRegistry, store, TRUE)]
       /\ caller = [p \in Peers |-> NoCaller]
       /\ now = [p \in Peers |-> IdleNow]
       /\ db = EmptyDB
       /\ ret = NoCall

SpecAPI == InitAPI /\ [][NextAPI]_vars

\* ---------------------------------------------------------- PostgresStorage
\* Writes made to the store in a run of the storage layer on its own.
MaxStoreWrites == 1

\* Task.Config with a nil HTTP pointer.
NilConfig ==
  [nil |-> TRUE, url |-> "", method |-> "", headers |-> "nil", body |-> ""]

\* Task.Config values: no HTTP configuration, or one with a header map that
\* is nil, empty or has an entry, and with or without a body.
Configs ==
  {NilConfig}
    \cup {[nil |-> FALSE, url |-> "u1", method |-> "GET", headers |-> hb[1],
           body |-> hb[2]] :
            hb \in {<<"nil", "">>, <<"empty", "b">>, <<"h1", "b">>}}

\* Task.Dependencies values: lists of task ids, one with an id twice.
DepLists == {<<>>, <<"A">>, <<"B">>, <<"A", "B">>, <<"A", "A">>}

\* The task objects passed to CreateTask and UpdateTask.
StoreInputs ==
  {[id |-> t, task |-> [deps |-> ds, config |-> c]] :
     t \in Tasks, ds \in DepLists, c \in Configs}

\* json.Marshal(task.Config): the keys of the JSON document and their
\* values. "http" is left out for a nil pointer, "headers" for a map without
\* entries and "body" for the empty string (omitempty).
Marshal(config) ==
  IF config.nil THEN [k \in {} |-> ""]
  ELSE [k \in {"http.url", "http.method"}
               \cup (IF config.headers \in {"nil", "empty"} THEN {}
                     ELSE {"http.headers"})
               \cup (IF config.body = "" THEN {} ELSE {"http.body"}) |->
          IF k = "http.url" THEN config.url
          ELSE IF k = "http.method" THEN config.method
          ELSE IF k = "http.headers" THEN config.headers
          ELSE config.body]

\* json.Unmarshal(configJSON, &task.Config) into the zero TaskConfig: a key
\* that is not in the document leaves the field at its zero value.
Unmarshal(json) ==
  IF "http.url" \notin DOMAIN json THEN NilConfig
  ELSE [nil |-> FALSE, url |-> json["http.url"], method |-> json["http.method"],
        headers |-> IF "http.headers" \in DOMAIN json THEN json["http.headers"]
                    ELSE "nil",
        body |-> IF "http.body" \in DOMAIN json THEN json["http.body"] ELSE ""]

\* The row of the tasks table made of a task object.
Row(task) == [config |-> Marshal(task.config)]

\* Rollback with the statements already executed left in the tables.
Rollback_KeepsWrites(before, reached) == reached

\* defer tx.Rollback(): a transaction that returns before Commit leaves the
\* tables as they were before it began.
Rollback(before, reached) == before

\* The tables after a transaction whose statements gave r.
TxEnd(before, r) ==
  IF r.err THEN [db |-> Rollback(before, r.db), err |-> TRUE] ELSE r

RECURSIVE InsertDependencies(_, _, _)
\* The loop of INSERT INTO task_dependencies: a row fails on the primary key
\* (task_id, dependency_id) or on the reference to tasks(id), and the first
\* error ends the loop.
InsertDependencies(d, id, deps) ==
  IF deps = <<>> THEN [db |-> d, err |-> FALSE]
  ELSE IF <<id, Head(deps)>> \in d.deps \/ Head(deps) \notin DOMAIN d.tasks
       THEN [db |-> d, err |-> TRUE]
       ELSE InsertDependencies([d EXCEPT !.deps = @ \cup {<<id, Head(deps)>>}],
                               id, Tail(deps))

\* DependenciesDeleted with the DELETE statement left out.
DependenciesDeleted_Nothing(edges, id) == edges

\* DELETE FROM task_dependencies WHERE task_id = $1
DependenciesDeleted(edges, id) == {e \in edges : e[1] # id}

\* CreateTask: INSERT INTO tasks (the id is the primary key), then the
\* dependency rows, then Commit. ok: the store executes the statements.
CreateTaskTx(d, o, ok) ==
  IF ~ok \/ o.id \in DOMAIN d.tasks THEN [db |-> Rollback(d, d), err |-> TRUE]
  ELSE TxEnd(d, InsertDependencies(
                  [d EXCEPT !.tasks = Inserted(@, o.id, Row(o.task))],
                  o.id, o.task.deps))

\* UpdateTask: UPDATE tasks (an error if no row was affected), DELETE of the
\* task's dependency rows, the new dependency rows, then Commit.
UpdateTaskTx(d, o, ok) ==
  IF ~ok \/ o.id \notin DOMAIN d.tasks THEN [db |-> Rollback(d, d), err |-> TRUE]
  ELSE TxEnd(d, InsertDependencies(
                  [d EXCEPT !.tasks[o.id] = Row(o.task),
                            !.deps = DependenciesDeleted(@, o.id)],
                  o.id, o.task.deps))

\* DeleteTask: DELETE of the task's dependency rows, of its results, of its
\* row (refused while a dependency row of another task references it; an
\* error if no row was affected), then Commit. failAt: the statement the
\* store fails to execute (0: none).
DeleteTaskTx(d, id, failAt) ==
  LET s1 == [d EXCEPT !.deps = DependenciesDeleted(@, id)]
      s2 == [s1 EXCEPT !.results = {r \in @ : r[2] # id}]
      s3 == [s2 EXCEPT !.tasks = Deleted(@, id)]
  IN IF failAt = 1 THEN [db |-> Rollback(d, d), err |-> TRUE]
     ELSE IF failAt = 2 THEN [db |-> Rollback(d, s1), err |-> TRUE]
     ELSE IF failAt = 3 \/ (\E e \in s2.deps : e[2] = id)
       THEN [db |-> Rollback(d, s2), err |-> TRUE]
     ELSE IF id \notin DOMAIN s2.tasks THEN [db |-> Rollback(d, s2), err |-> TRUE]
     ELSE [db |-> s3, err |-> FALSE]

\* The orders in which a SELECT without ORDER BY can return the rows.
Orders(rows) ==
  {order \in [1..Cardinality(rows) -> rows] :
     \A i, j \in 1..Cardinality(rows) : order[i] = order[j] => i = j}

\* The dependency_id values of the task's rows of task_dependencies.
DependenciesOf(d, id) == {e[2] : e \in {x \in d.deps : x[1] = id}}

\* What a call that returns no task object returns.
NoOutput == [deps |-> <<>>, config |-> NilConfig]

\* The record of a write: its input, its error and the tables before it.
WriteCall(op, o, r) ==
  [op |-> op, id |-> o.id, err |-> r.err, n |-> ret.n + 1, in |-> o.task,
   before |-> db]

StoreCreateTask(o) ==
  /\ ret.n < MaxStoreWrites
  /\ \E ok \in BOOLEAN :
       LET r == CreateTaskTx(db, o, ok)
       IN db' = r.db /\ ret' = WriteCall("CreateTask", o, r)
  /\ UNCHANGED <<tasks, results, leases, reg, fire, obs, fired, seq, sched, caller, now>>

StoreUpdateTask(o) ==
  /\ ret.n < MaxStoreWrites
  /\ \E ok \in BOOLEAN :
       LET r == UpdateTaskTx(db, o, ok)
       IN db' = r.db /\ ret' = WriteCall("UpdateTask", o, r)
  /\ UNCHANGED <<tasks, results, leases, reg, fire, obs, fired, seq, sched, caller, now>>

StoreDeleteTask(id) ==
  /\ ret.n < MaxStoreWrites
  /\ \E failAt \in 0..3 :
       LET r == DeleteTaskTx(db, id, failAt)
       IN /\ db' = r.db
          /\ ret' = WriteCall("DeleteTask", [id |-> id, task |-> NoOutput], r)
  /\ UNCHANGED <<tasks, results, leases, reg, fire, obs, fired, seq, sched, caller, now>>

\* GetTask: the row of the task, its config unmarshalled, and its dependency
\* rows in the order the store returns them. "last" is the write before it.
StoreGetTask(id) ==
  /\ ret.op # "GetTask"
  /\ \E order \in Orders(DependenciesOf(db, id)) :
       ret' = [op |-> "GetTask", id |-> id, err |-> id \notin DOMAIN db.tasks,
               n |-> ret.n, last |-> ret,
               out |-> IF id \in DOMAIN db.tasks
                       THEN [deps |-> order,
                             config |-> Unmarshal(db.tasks[id].config)]
                       ELSE NoOutput]
  /\ UNCHANGED <<tasks, results, leases, reg, fire, obs, fired, seq, sched, caller, now, db>>

NextStore ==
  \/ \E o \in StoreInputs : StoreCreateTask(o)
  \/ \E o \in StoreInputs : StoreUpdateTask(o)
  \/ \E id \in Tasks : StoreDeleteTask(id)
  \/ \E id \in Tasks : StoreGetTask(id)

\* The ids of the task_results rows.
ResultIDs == {"r1"}

\* The tables as earlier calls left them: some of the tasks stored, with
\* dependency rows among them, and results of stored tasks.
InitStore ==
  \E S \in SUBSET Tasks : \E E \in SUBSET (S \X S) :
    \E R \in SUBSET (ResultIDs \X S) :
      /\ \A r1, r2 \in R : r1[1] = r2[1] => r1 = r2
      /\ db = [tasks |-> [t \in S |-> Row([config |-> NilConfig])],
               deps |-> E, results |-> R]
      /\ ret = NoCall
      /\ tasks = [t \in Tasks |-> NewTask(t)]
      /\ results = [t \in Tasks |-> <<>>]
      /\ leases = {}
      /\ reg = [p \in Peers |-> [t \in Tasks |-> NewTask(t)]]
      /\ fire = [p \in Peers |-> IdleFire]
      /\ obs = [p \in Peers |-> NoObs]
      /\ fired = [p \in Peers |-> [t \in Tasks |-> 0]]
      /\ seq = 0
      /\ sched = [p \in Peers |-> EmptyRegistry]
      /\ caller = [p \in Peers |-> NoCaller]
      /\ now = [p \in Peers |-> IdleNow]

SpecStore == InitStore /\ [][NextStore]_vars

\* ------------------------------------------------ Lease Coordinator, alone
\* The record of a lease operation called by instance p for task t.
LeaseCall(op, t, p, err) ==
  [op |-> op, id |-> t, err |-> err, n |-> ret.n, by |-> p, before |-> leases]

\* try_acquire called by any instance for any task.
LeaseTryLock(p, t) ==
  /\ leases' = LeasesAfterTryLock(t, p)
  /\ ret' = LeaseCall("TryLockTask", t, p, FALSE)
  /\ UNCHANGED <<tasks, results, reg, fire, obs, fired, seq, sched, caller, now, db>>

\* refresh called by any instance for any task.
LeaseRefresh(p, t) ==
  /\ leases' = IF RefreshLock(t, p) THEN LeasesAfterRefresh(t, p) ELSE leases
  /\ ret' = LeaseCall("RefreshLock", t, p, ~RefreshLock(t, p))
  /\ UNCHANGED <<tasks, results, reg, fire, obs, fired, seq, sched, caller, now, db>>

\* release called by any instance for any task.
LeaseRelease(p, t) ==
  /\ leases' = ReleaseLock(leases, t, p).leases
  /\ ret' = LeaseCall("ReleaseLock", t, p, ReleaseLock(leases, t, p).err)
  /\ UNCHANGED <<tasks, results, reg, fire, obs, fired, seq, sched, caller, now, db>>

\* 10 seconds pass: every lease gets 10 s closer to its expiry.
LeaseAges ==
  /\ \E l \in leases : l.ttl > 0
  /\ leases' = {[l EXCEPT !.ttl = IF @ > 0 THEN @ - 1 ELSE 0] : l \in leases}
  /\ UNCHANGED <<tasks, results, reg, fire, obs, fired, seq, sched, caller, now, db, ret>>

NextLease ==
  \/ \E p \in Peers, t \in Tasks : LeaseTryLock(p, t)
  \/ \E p \in Peers, t \in Tasks : LeaseRefresh(p, t)
  \/ \E p \in Peers, t \in Tasks : LeaseRelease(p, t)
  \/ LeaseAges

\* The lease operations called in any order by any instance, and time.
SpecLease == Init /\ [][NextLease]_vars

\* ------------------------------------------------------------------ claims
\* The result rows peer p stored for its current fire.
OwnRows(p) ==
  IF fire[p].task = NoTask THEN {}
  ELSE {i \in DOMAIN results[fire[p].task] :
          /\ results[fire[p].task][i].inst = p
          /\ results[fire[p].task][i].k = fire[p].k}

\* A leased fire has made every call it makes: only ticker.Stop(), cancel()
\* and the return are left.
AtEnd(p) == fire[p].lockRes = "held" /\ fire[p].pc = "return"

\* The dependency's newest result as ListTaskResults returned it.
NewestCompleted(p) ==
  Len(obs[p].seen) > 0 /\ obs[p].seen[1] = TaskStatusCompleted

OlderHas(p, st) == \E i \in 2..Len(obs[p].seen) : obs[p].seen[i] = st

\* C1: when every peer has run executeTask for the same fire of a task
\* without dependencies (and no store call of theirs failed), exactly one
\* peer called CreateTaskResult for that fire and no other peer stored a
\* result.
C1_ExactlyOneResultPerFire ==
  \A t \in Tasks : \A k \in 1..MaxFires :
    ( /\ Len(Dependencies(t)) = 0
      /\ \A p \in Peers : /\ fire[p].task = t /\ fire[p].k = k
                          /\ fire[p].pc = "done" /\ fire[p].lockRes # "error"
                          /\ obs[p].nCreate = 1 => OwnRows(p) # {} )
    => /\ Cardinality({p \in Peers : obs[p].nCreate = 1}) = 1
       /\ \A p \in Peers : obs[p].nCreate = 0 => OwnRows(p) = {}

\* C2: at most one unexpired lease per task, and every RefreshLock and
\* ReleaseLock call of the engine is made by an instance that holds the
\* task's lease at that moment.
C2_LeaseHeldByCaller ==
  /\ \A t \in Tasks : Cardinality(Unexpired(t)) <= 1
  /\ \A p \in Peers : ~obs[p].unheldLockOp

\* C3: the gate lets a dependency pass exactly when it has a result and its
\* newest result (the first of the newest-first list) is completed.
C3_GateDecidesOnNewest ==
  \A p \in Peers :
    obs[p].read = "ok" => (obs[p].gate = "proceed" <=> NewestCompleted(p))

\* C4: a fire that finds the dependency's newest result failed and an older
\* one completed holds: no dispatch, no result for the dependent task.
C4_RegressionBlocks ==
  \A p \in Peers :
    ( /\ obs[p].read = "ok" /\ Len(obs[p].seen) >= 2
      /\ obs[p].seen[1] = TaskStatusFailed /\ OlderHas(p, TaskStatusCompleted) )
    => obs[p].nDispatch = 0 /\ obs[p].nCreate = 0 /\ OwnRows(p) = {}

\* C5: a leased fire that finds the dependency's newest result completed and
\* an older one failed executes: it dispatches and calls CreateTaskResult.
C5_RecoveryExecutes ==
  \A p \in Peers :
    ( /\ AtEnd(p) /\ obs[p].read = "ok" /\ Len(obs[p].seen) >= 2
      /\ NewestCompleted(p) /\ OlderHas(p, TaskStatusFailed) )
    => obs[p].nDispatch = 1 /\ obs[p].nCreate = 1

\* The gate must hold: the read failed, there is no result, or the newest
\* result is not completed.
MustHold(p) ==
  \/ obs[p].read = "error"
  \/ obs[p].read = "ok" /\ ~NewestCompleted(p)

\* C6: a leased fire whose dependency read failed, found no result or found
\* a newest result that is not completed ends in hold: no dispatch, no result,
\* no task write, and the release call made.
C6_HoldLeavesNoTrace ==
  \A p \in Peers :
    (AtEnd(p) /\ MustHold(p))
    => /\ obs[p].nDispatch = 0 /\ obs[p].nCreate = 0 /\ obs[p].nUpdate = 0
       /\ OwnRows(p) = {} /\ obs[p].nRelease = 1

\* C7: a fire whose executor was cut off by the 30 s timeout has, when it
\* ends, a stored result failed with the timeout error.
C7_TimeoutIsRecorded ==
  \A p \in Peers :
    (AtEnd(p) /\ obs[p].timedOut)
    => \E i \in OwnRows(p) :
         /\ results[fire[p].task][i].status = TaskStatusFailed
         /\ results[fire[p].task][i].err = "timeout"

\* C8: a leased fire calls ReleaseLock exactly once, after everything else
\* and on every path: never before the release step, once when it is over.
C8_ReleaseOnceOnEveryPath ==
  \A p \in Peers :
    fire[p].lockRes = "held" =>
      /\ fire[p].pc \in {"deps", "exec", "running", "store", "update", "release"}
           => obs[p].nRelease = 0
      /\ fire[p].pc = "return" => obs[p].nRelease = 1

\* The result write of a leased fire failed and the release call was made.
C8_Witness ==
  \E p \in Peers :
    /\ AtEnd(p) /\ obs[p].nCreate = 1 /\ ~obs[p].created /\ OwnRows(p) = {}
    /\ obs[p].nRelease = 1

\* C9: no RefreshLock call of a fire is made once that fire has called
\* ReleaseLock.
C9_NoRefreshAfterRelease ==
  \A p \in Peers : ~obs[p].refreshAfterRelease

\* A fire that lost the lease (held elsewhere, or TryLockTask failed).
Lost(f) == f.lockRes \in {"busy", "error"}

\* C10: a fire that does not get the lease is over at once, having called
\* nothing else, started no refresh loop and stored nothing; the step in which
\* it loses changes no lease, task or result in the store.
C10_LoserEndsAtOnce ==
  /\ [](\A p \in Peers :
          Lost(fire[p]) =>
            /\ fire[p].pc = "done" /\ fire[p].ref = "none" /\ ~fire[p].tick
            /\ obs[p] = NoObs /\ OwnRows(p) = {})
  /\ [][\A p \in Peers :
          (fired'[p] # fired[p] /\ Lost(fire'[p]))
            => UNCHANGED <<tasks, results, leases>>]_vars

\* A peer lost the fire to another peer that holds the task's lease.
C10_Witness ==
  \E p \in Peers : \E q \in Peers \ {p} :
    /\ fire[p].lockRes = "busy" /\ fire[p].pc = "done"
    /\ Holds(q, fire[p].task) /\ fire[q].task = fire[p].task

\* The fire's execution is in flight: the lease was taken and the deferred
\* ReleaseLock has not been called.
InFlight(p) ==
  /\ fire[p].lockRes = "held"
  /\ fire[p].pc \in {"deps", "exec", "running", "store", "update", "release"}

\* C11: a leased fire that reached Executor Dispatch, and none of whose store
\* calls was failed by the store itself, has at its end exactly one result of
\* its own stored, completed or failed, and the task's stored status is that
\* result's status.
C11_OneResultAndStatusMirrorsIt ==
  \A p \in Peers :
    (AtEnd(p) /\ obs[p].nDispatch = 1 /\ ~obs[p].fault)
    => /\ Cardinality(OwnRows(p)) = 1
       /\ \A i \in OwnRows(p) :
            /\ results[fire[p].task][i].status
                 \in {TaskStatusCompleted, TaskStatusFailed}
            /\ tasks[fire[p].task].status = results[fire[p].task][i].status

\* C12: from the acquire to its own release call a fire whose refresh calls
\* the store did not fail holds the task's lease, and no step in that interval
\* gives the lease of that task to another peer.
C12_LeaseKeptUntilRelease ==
  /\ [](\A p \in Peers :
          (InFlight(p) /\ ~obs[p].fault) => Holds(p, fire[p].task))
  /\ [][\A p \in Peers : \A q \in Peers \ {p} :
          (InFlight(p) /\ ~obs[p].fault /\ fired'[q] # fired[q]
             /\ fire'[q].task = fire[p].task)
          => fire'[q].lockRes # "held"]_vars

\* A fire has run for 20 s, its lease just refreshed, and another peer's fire
\* of the same task found the lease held.
C12_Witness ==
  \E p \in Peers : \E q \in Peers \ {p} :
    /\ InFlight(p) /\ fire[p].pc = "running" /\ fire[p].elapsed = 2
    /\ ~fire[p].tick /\ ~obs[p].fault
    /\ [task |-> fire[p].task, holder |-> p, ttl |-> LeaseTTL] \in leases
    /\ fire[q].task = fire[p].task /\ fire[q].lockRes = "busy"

\* C17: no step of a fire changes the task definition the registry holds for
\* the registration: it changes only when the registry itself is changed.
C17_FireLeavesRegistryCopy ==
  [][\A p \in Peers : \A t \in Tasks :
       (sched'[p] = sched[p] /\ caller'[p] = caller[p])
       => reg'[p][t] = reg[p][t]]_vars

DeadHolder(p, t) == fire[p].pc = "crashed" /\ fire[p].task = t

\* C13: the lease of a peer that crashed holding it expires; a fire of the
\* task on another peer that then calls TryLockTask (and the store answers)
\* gets the lease, and a fire that got it with no dependency to wait for
\* executes.
C13_DeadHolderLeaseExpires ==
  /\ \A p \in Peers : \A t \in Tasks :
       (DeadHolder(p, t) /\ Holds(p, t)) ~> (DeadHolder(p, t) /\ TryLockTask(t))
  /\ [][\A p \in Peers : \A q \in Peers \ {p} : \A t \in Tasks :
          (DeadHolder(p, t) /\ TryLockTask(t) /\ fired'[q][t] # fired[q][t]
             /\ fire'[q].lockRes # "error")
          => /\ fire'[q].lockRes = "held" /\ Holds(q, t)'
             /\ fire'[q].pc \in {"deps", "exec"}]_vars
  /\ [](\A p \in Peers : \A q \in Peers \ {p} :
          (DeadHolder(p, fire[q].task) /\ AtEnd(q) /\ ~obs[q].fault
             /\ Len(Dependencies(fire[q].task)) = 0)
          => obs[q].nDispatch = 1)

\* After a peer died holding the lease of a task, another peer's fire of the
\* task took the lease, executed and stored its result.
C13_Witness ==
  \E p \in Peers : \E q \in Peers \ {p} :
    /\ DeadHolder(p, fire[q].task) /\ AtEnd(q)
    /\ obs[q].nDispatch = 1 /\ obs[q].created

\* C14: once a RefreshLock call of a fire has failed because the fire no
\* longer holds the lease, the fire changes nothing in the tasks table: the
\* result write is the only store mutation left to it.
C14_LeaseLossStopsSideEffects ==
  [][\A p \in Peers :
       (obs[p].lost /\ obs'[p].nUpdate > obs[p].nUpdate) => tasks' = tasks]_vars

\* The triggers the cron engine of peer p holds for task t.
Triggers(p, t) == {e \in sched[p].cron : e.task = t}

\* C15: after any sequence of Start, ScheduleTask and RemoveTask calls on a
\* peer its cron engine holds at most one trigger per task and the entries
\* map names exactly those triggers; a ScheduleTask call for a task already
\* registered leaves one trigger, a new one, and a RemoveTask call none.
C15_OneTriggerPerTask ==
  /\ [](\A p \in Peers : \A t \in Tasks :
          /\ Cardinality(Triggers(p, t)) <= 1
          /\ \A e \in Triggers(p, t) : sched[p].entries[t] = e.id
          /\ sched[p].entries[t] # NoEntry => Triggers(p, t) # {})
  /\ [][\A p \in Peers : \A t \in Tasks :
          /\ (sched[p].entries[t] # NoEntry /\ sched'[p].entries[t] # NoEntry
                 /\ sched'[p].nextID # sched[p].nextID /\ caller'[p].id = t)
              => /\ Cardinality(Triggers(p, t)') = 1
                 /\ Triggers(p, t)' \cap Triggers(p, t) = {}
          /\ (sched[p].entries[t] # NoEntry /\ sched'[p].entries[t] = NoEntry)
              => Triggers(p, t)' = {}]_vars

\* A task registered by Start was registered again through the API and has
\* the one trigger of the second registration.
C15_Witness ==
  \E t \in Tasks :
    /\ sched[RegPeer].started = "ok" /\ caller[RegPeer].id = t
    /\ sched[RegPeer].entries[t] = 3
    /\ Triggers(RegPeer, t) = {[id |-> 3, task |-> t]}

\* C16: while a fire of a registered task checks its dependencies or
\* executes, the dependency list and the HTTP configuration it works with are
\* those the task object had when ScheduleTask was called.
C16_RegistrationIsASnapshot ==
  \A p \in Peers :
    fire[p].pc \in {"deps", "exec", "running"}
    => /\ reg[p][fire[p].task].deps = sched[p].snap[fire[p].task].deps
       /\ reg[p][fire[p].task].http = sched[p].snap[fire[p].task].http

\* C18: a Start that finds a schedule that does not parse returns an error;
\* a Start that returned an error has not started the cron engine and no
\* task fires on the peer afterwards; a Start that returned no error has
\* started the engine with exactly one trigger for every stored task.
C18_StartAllOrNothing ==
  /\ [](\A p \in Peers :
          sched[p].started = "error"
          => /\ ~sched[p].running
             /\ fire[p] = IdleFire /\ \A t \in Tasks : fired[p][t] = 0)
  /\ [][\A p \in Peers :
          (sched[p].started = "no" /\ sched'[p].started # "no")
          => /\ (\E t \in Tasks : ~ParseOK(tasks[t].schedule))
                  => sched'[p].started = "error"
             /\ sched'[p].started = "ok"
                  => /\ sched'[p].running
                     /\ \A t \in Tasks : Cardinality(Triggers(p, t)') = 1]_vars

\* Start registered the first task it loaded, failed on the second and
\* returned the error without starting the engine.
C18_Witness ==
  /\ sched[RegPeer].started = "error" /\ ~sched[RegPeer].running
  /\ sched[RegPeer].cron # {}
  /\ caller[RegPeer].id = NoTask

\* The type of the task is not supported, or its HTTP configuration is missing.
Unsupported(task) == task.type # TaskTypeHTTP \/ task.http = NoHTTP

\* C19: a leased fire of a task whose type is not supported or whose HTTP
\* configuration is missing, none of whose store calls the store fails, has
\* at its end one stored result: failed, with the executor's error text.
C19_UnsupportedTypeIsRecorded ==
  \A p \in Peers :
    ( /\ AtEnd(p) /\ ~obs[p].fault
      /\ Len(Dependencies(fire[p].task)) = 0
      /\ Unsupported(reg[p][fire[p].task]) )
    => /\ obs[p].nDispatch = 1
       /\ Cardinality(OwnRows(p)) = 1
       /\ \A i \in OwnRows(p) :
            /\ results[fire[p].task][i].status = TaskStatusFailed
            /\ results[fire[p].task][i].err = ExecError(reg[p][fire[p].task])
            /\ results[fire[p].task][i].err
                 \in {"unsupported task type", "HTTP config is required"}

\* A fire of a task of an unsupported type has ended with its failed result
\* stored.
C19_Witness ==
  \E p \in Peers :
    /\ AtEnd(p) /\ ~obs[p].fault
    /\ reg[p][fire[p].task].type # TaskTypeHTTP
    /\ \E i \in OwnRows(p) :
         results[fire[p].task][i].err = "unsupported task type"

\* C21: every stored result carries in its metadata the identity of the
\* instance that executed it, and a scheduled fire stores its result only as
\* the instance that took the lease for that fire.
C21_ResultNamesItsExecutor ==
  /\ [](\A t \in Tasks : \A i \in DOMAIN results[t] :
          results[t][i].metadata = results[t][i].inst)
  /\ [][\A p \in Peers :
          obs'[p].nCreate > obs[p].nCreate => fire[p].lockRes = "held"]_vars

\* A manual invocation is executing, or storing what it executed.
NowInProgress(p) == now[p].pc \in {"running", "store", "update"}

\* A scheduled fire is executing, or storing what it executed.
FireInProgress(p) ==
  fire[p].lockRes = "held" /\ fire[p].pc \in {"running", "store", "update"}

\* C22: a manual invocation in progress holds the lease of its task, and no
\* scheduled fire of the same task is in progress on any peer at that time.
C22_ManualInvocationTakesLease ==
  \A q \in Peers :
    NowInProgress(q)
    => /\ Holds(q, now[q].task)
       /\ \A p \in Peers : ~(FireInProgress(p) /\ fire[p].task = now[q].task)

\* The step is a successful update of task t through the API.
UpdateServed(t) ==
  ret'.n > ret.n /\ ret'.op = "UpdateTask" /\ ret'.id = t /\ ~ret'.err

\* C23: no step lowers the stored version of a task, and a successful update
\* through the API raises it by exactly one over the version stored before.
C23_VersionOnlyGrows ==
  [][\A t \in DOMAIN tasks \cap DOMAIN tasks' :
       /\ tasks'[t].version >= tasks[t].version
       /\ UpdateServed(t) => tasks'[t].version = tasks[t].version + 1]_vars

\* The definition a trigger runs with: schedule, type, dependencies, config.
Definition(task) ==
  [schedule |-> task.schedule, type |-> task.type, deps |-> task.deps,
   http |-> task.http]

\* C28: the registry of every running peer has a trigger for exactly the
\* tasks in the store, each with the stored schedule and definition.
C28_EveryPeerHoldsFullSchedule ==
  \A p \in Peers :
    sched[p].running
    => \A t \in Tasks :
         /\ t \in DOMAIN tasks <=> Triggers(p, t) # {}
         /\ t \in DOMAIN tasks => Definition(reg[p][t]) = Definition(tasks[t])

\* The steps the stored status may take: pending to running, running to
\* completed or failed, and a new execution's outcome over an earlier one
\* (the engine stores no running status of its own, so an execution takes
\* pending to its outcome).
StatusMoves ==
  ({TaskStatusPending} \X {TaskStatusRunning, TaskStatusCompleted, TaskStatusFailed})
    \cup ({TaskStatusRunning, TaskStatusCompleted, TaskStatusFailed}
            \X {TaskStatusCompleted, TaskStatusFailed})

\* The step is the status write of an execution of task t.
StatusWrite(t) ==
  \/ \E p \in Peers : obs'[p].nUpdate > obs[p].nUpdate /\ fire[p].task = t
  \/ \E p \in Peers : now[p].pc = "update" /\ now'[p].pc = "done" /\ now[p].task = t

\* C30: the stored status of a task is running only while a leased execution
\* of the task is in flight, and it changes only by the status write of an
\* execution, along pending, running, completed or failed; a request to
\* update the task does not change it.
C30_StatusFollowsExecutions ==
  /\ [](\A t \in DOMAIN tasks :
          tasks[t].status = TaskStatusRunning
          => \E p \in Peers : InFlight(p) /\ fire[p].task = t)
  /\ [][\A t \in DOMAIN tasks \cap DOMAIN tasks' :
          tasks'[t].status # tasks[t].status
          => /\ <<tasks[t].status, tasks'[t].status>> \in StatusMoves
             /\ StatusWrite(t)]_vars

\* The rows the store holds that belong to task id: its row, its dependency
\* rows and its results.
RowsOf(d, id) ==
  [row |-> id \in DOMAIN d.tasks, deps |-> {e \in d.deps : e[1] = id},
   results |-> {r \in d.results : r[2] = id}]

NoRows == [row |-> FALSE, deps |-> {}, results |-> {}]

\* C24: after a DeleteTask call that returned no error the task's row, its
\* dependency rows and its results are gone and nothing else is; after one
\* that returned an error the tables are as before; and the call returns an
\* error for a task with no row and for one another task depends on.
C24_DeleteIsAtomic ==
  ret.op = "DeleteTask"
  => /\ ~ret.err => /\ RowsOf(db, ret.id) = NoRows
                    /\ RowsOf(ret.before, ret.id).row
                    /\ \A t \in Tasks \ {ret.id} :
                         RowsOf(db, t) = RowsOf(ret.before, t)
     /\ ret.err => db = ret.before
     /\ (\/ ret.id \notin DOMAIN ret.before.tasks
         \/ \E e \in ret.before.deps : e[1] # ret.id /\ e[2] = ret.id)
        => ret.err

\* DeleteTask of a task that has dependency rows and a result and that
\* another task depends on returned an error.
C24_Witness ==
  /\ ret.op = "DeleteTask" /\ ret.err
  /\ RowsOf(db, ret.id).row
  /\ RowsOf(db, ret.id).deps # {} /\ RowsOf(db, ret.id).results # {}
  /\ \E e \in db.deps : e[1] # ret.id /\ e[2] = ret.id

\* The header mapping of a header map value: a nil map and an empty map
\* both have no entries.
HeaderMap(headers) == IF headers \in {"nil", "empty"} THEN {} ELSE {headers}

Range(list) == {list[i] : i \in DOMAIN list}

\* The two configs are the same variant with the same url, method, header
\* mapping and body.
SameConfig(a, b) ==
  /\ a.nil = b.nil /\ a.url = b.url /\ a.method = b.method
  /\ HeaderMap(a.headers) = HeaderMap(b.headers) /\ a.body = b.body

\* C25: GetTask of a task after a CreateTask or UpdateTask of it that returned
\* no error returns the dependency ids of the object written, each once, in
\* some order, and its config.
C25_RoundTrip ==
  ( /\ ret.op = "GetTask" /\ ret.last.op \in {"CreateTask", "UpdateTask"}
    /\ ~ret.last.err /\ ret.last.id = ret.id )
  => /\ ~ret.err
     /\ Range(ret.out.deps) = Range(ret.last.in.deps)
     /\ Len(ret.out.deps) = Cardinality(Range(ret.last.in.deps))
     /\ SameConfig(ret.out.config, ret.last.in.config)

\* GetTask after an UpdateTask that replaced a task's dependency rows by two
\* others and its config by one with headers and a body.
C25_Witness ==
  /\ ret.op = "GetTask" /\ ret.last.op = "UpdateTask" /\ ~ret.last.err
  /\ ret.last.id = ret.id
  /\ DependenciesOf(ret.last.before, ret.id) # {}
  /\ DependenciesOf(ret.last.before, ret.id) # Range(ret.last.in.deps)
  /\ Len(ret.out.deps) = 2
  /\ ret.out.config.headers = "h1" /\ ret.out.config.body = "b"

\* The last call was a release by an instance that did not hold the task's
\* lease: reason says why.
ReleasedUnheld(reason) ==
  /\ ret.op = "ReleaseLock"
  /\ LET mine == {l \in ret.before : l.task = ret.id /\ l.holder = ret.by}
         others == {l \in ret.before : l.task = ret.id /\ l.holder # ret.by}
     IN \/ reason = "expired" /\ \E l \in mine : l.ttl = 0
        \/ reason = "never held" /\ mine = {} /\ others = {}
        \/ reason = "reassigned" /\ mine = {} /\ \E l \in others : l.ttl > 0

C27_FireErrorsStayInEngine ==
  [][\A p \in Peers :
       (fire'[p] # fire[p] \/ obs'[p] # obs[p]) => sched'[p] = sched[p]]_vars

\* The fire of a task failed and its failed result was stored; the trigger
\* has fired again on the peer and the second fire has the lease.
C27_Witness ==
  \E p \in Peers :
    /\ fire[p].task # NoTask /\ fire[p].k = 2 /\ fire[p].lockRes = "held"
    /\ Triggers(p, fire[p].task) # {}
    /\ \E i \in DOMAIN results[fire[p].task] :
         /\ results[fire[p].task][i].inst = p /\ results[fire[p].task][i].k = 1
         /\ results[fire[p].task][i].status = TaskStatusFailed

\* ---------------------------------------------------------------- shutdown
\* Scheduler.Stop: cron.Stop() stops the engine from firing (jobs that are
\* running go on, and the context cron.Stop returns to wait for them is
\* dropped), close(s.stopChan) closes a channel nothing receives from. The
\* entries stay. "started" records that Stop was called.
Stopped(s) == [s EXCEPT !.running = FALSE, !.started = "stopped"]

\* main's deferred scheduler.Stop(), run when main returns after the signal
\* and the 5 s wait, during which the engine went on firing.
Stop(p) ==
  /\ sched[p].started = "ok"
  /\ sched' = [sched EXCEPT ![p] = Stopped(@)]
  /\ UNCHANGED <<tasks, results, leases, reg, fire, obs, fired, seq, caller, now, db, ret>>

\* main returns once its deferred calls are done: the process ends and with
\* it every goroutine of the peer. Nothing waits for a fire in flight; its
\* lease row stays in the store.
Exit(p) ==
  /\ sched[p].started = "stopped"
  /\ sched' = [sched EXCEPT ![p].started = "exited"]
  /\ fire' = [fire EXCEPT ![p] =
       IF fire[p].pc \in {"idle", "done", "crashed"}
       THEN [fire[p] EXCEPT !.ref = IF @ = "live" THEN "stopped" ELSE @,
                            !.tick = FALSE]
       ELSE [IdleFire EXCEPT !.task = fire[p].task, !.k = fire[p].k,
               !.lockRes = fire[p].lockRes, !.pc = "crashed",
               !.ref = "stopped"]]
  /\ obs' = [obs EXCEPT ![p] =
       IF fire[p].pc \in {"idle", "done", "crashed"} THEN @ ELSE NoObs]
  /\ UNCHANGED <<tasks, results, leases, reg, fired, seq, caller, now, db, ret>>

NextStop ==
  \/ \E p \in Peers : TriggerFires(p, CrashTask)
  \/ \E p \in Peers : Dispatch(p)
  \/ \E p \in Peers : ExecutorReturns(p)
  \/ \E p \in Peers : ExecutorTimeout(p)
  \/ \E p \in Peers : CreateTaskResult(p)
  \/ \E p \in Peers : UpdateTask(p)
  \/ \E p \in Peers : ReleaseLockCall(p)
  \/ \E p \in Peers : Return(p)
  \/ \E p \in Peers : RefreshLockCall(p)
  \/ \E p \in Peers : RefreshLoopExit(p)
  \/ Tick
  \/ \E p \in Peers : Stop(p)
  \/ \E p \in Peers : Exit(p)

\* Time passes, the Go scheduler runs every goroutine that can run, main
\* among them.
FairnessStop == Fairness /\ \A p \in Peers : WF_vars(Exit(p))

SpecStop == Init /\ [][NextStop]_vars /\ FairnessStop

\* Stop has been called on peer p.
StopCalled(p) == sched[p].started \in {"stopped", "exited"}

\* No fire begins on a peer on which Stop has been called.
NoFireAfterStop ==
  [][\A p \in Peers : StopCalled(p) => fired'[p] = fired[p]]_vars

\* The call of Stop changes no fire and no lease.
StopCancelsNothing ==
  [][(\E p \in Peers : ~StopCalled(p) /\ StopCalled(p)')
       => UNCHANGED <<fire, obs, leases, tasks, results>>]_vars

\* A lease held by a peer on which Stop has been called is in the end
\* released or expired.
StoppedLeaseEnds ==
  \A p \in Peers :
    (StopCalled(p) /\ Holds(p, CrashTask)) ~> ~Holds(p, CrashTask)

\* An execution in flight when Stop has been called reaches the end of its
\* fire.
InFlightRunsToEnd ==
  \A p \in Peers : (StopCalled(p) /\ InFlight(p)) ~> (fire[p].pc = "done")

\* C29: after Stop is called on a peer no fire begins on it, the call
\* cancels no execution in flight, every execution in flight at the call
\* runs to the end of its fire, and a lease a stopped peer holds is in the
\* end released or expired.
C29_StopLetsExecutionsFinish ==
  /\ NoFireAfterStop
  /\ StopCancelsNothing
  /\ InFlightRunsToEnd
  /\ StoppedLeaseEnds

\* What create and update write of a task and an execution's status write
\* is not to touch: everything but the status (and updated-at).
AsLastWritten(task) == [task EXCEPT !.status = TaskStatusPending]

\* C31: the status write at the end of an execution leaves the stored
\* schedule, type, config, version and dependencies of the task as create or
\* update last wrote them; it changes the status only.
C31_StatusWriteChangesStatusOnly ==
  [][\A t \in DOMAIN tasks \cap DOMAIN tasks' :
       StatusWrite(t) => AsLastWritten(tasks'[t]) = AsLastWritten(tasks[t])]_vars

\* ------------------------------------------------------ cyclic dependencies
\* Dependency lists that form a cycle: A on itself (CreateTask inserts the
\* task's row before its dependency rows, so the foreign key is met), and A
\* and B on each other (create A, create B on A, update A).
CycleDeps ==
  {[t \in Tasks |-> IF t = "A" THEN <<"A">> ELSE <<>>],
   [t \in Tasks |-> IF t = "A" THEN <<"B">> ELSE <<"A">>]}

\* The peers have started on a store whose tasks depend on each other in a
\* cycle; no result has been stored.
InitCycle ==
  \E D \in CycleDeps :
    LET loaded == [t \in Tasks |-> [NewTask(t) EXCEPT !.deps = D[t]]]
    IN /\ tasks = loaded
       /\ results = [t \in Tasks |-> <<>>]
       /\ leases = {}
       /\ reg = [p \in Peers |-> loaded]
       /\ fire = [p \in Peers |-> IdleFire]
       /\ obs = [p \in Peers |-> NoObs]
       /\ fired = [p \in Peers |-> [t \in Tasks |-> 0]]
       /\ seq = 0
       /\ sched = [p \in Peers |-> StartOutcome(EmptyRegistry, loaded, TRUE)]
       /\ caller = [p \in Peers |-> NoCaller]
       /\ now = [p \in Peers |-> IdleNow]
       /\ db = EmptyDB
       /\ ret = NoCall

\* Scheduled fires of every task on every peer and manual invocations; every
\* execution is over before its first 10 s have passed.
NextCycle ==
  \/ \E p \in Peers, t \in Tasks : ExecuteTaskBegin(p, t)
  \/ \E p \in Peers : CheckDependency(p)
  \/ \E p \in Peers : Dispatch(p)
  \/ \E p \in Peers : ExecutorReturns(p)
  \/ \E p \in Peers : CreateTaskResult(p)
  \/ \E p \in Peers : UpdateTask(p)
  \/ \E p \in Peers : ReleaseLockCall(p)
  \/ \E p \in Peers : Return(p)
  \/ \E p \in Peers : RefreshLoopExit(p)
  \/ \E p \in Peers : ExecuteTaskNowBegin(p, NowTask)
  \/ \E p \in Peers : NowExecutorReturns(p)
  \/ \E p \in Peers : NowCreateTaskResult(p)
  \/ \E p \in Peers : NowUpdateTask(p)

SpecCycle == InitCycle /\ [][NextCycle]_vars

\* Task t depends, directly or through the other task, on itself.
InCycle(t) ==
  \E i \in DOMAIN tasks[t].deps :
    LET u == tasks[t].deps[i]
    IN u = t \/ \E j \in DOMAIN tasks[u].deps : tasks[u].deps[j] = t

\* C32: no result is ever stored for a task whose dependencies form a cycle
\* and that had no result to begin with, by scheduled fires and manual
\* invocations alike.
C32_CycleHoldsForever ==
  \A t \in Tasks : InCycle(t) => results[t] = <<>>

\* The same with the scheduled fires alone: as long as no manual invocation
\* was made, no result is stored for a task in a cycle.
CycleFiresHold ==
  Invoked = 0 => \A t \in Tasks : InCycle(t) => results[t] = <<>>

\* ---------------------------------------------------- the dependency gate
\* Scheduled fires of both tasks on every peer, on a store that holds an
\* earlier result of A; every execution is over before its first 10 s have
\* passed.
NextGate ==
  \/ \E p \in Peers, t \in Tasks : ExecuteTaskBegin(p, t)
  \/ \E p \in Peers : CheckDependency(p)
  \/ \E p \in Peers : Dispatch(p)
  \/ \E p \in Peers : ExecutorReturns(p)
  \/ \E p \in Peers : CreateTaskResult(p)
  \/ \E p \in Peers : UpdateTask(p)
  \/ \E p \in Peers : ReleaseLockCall(p)
  \/ \E p \in Peers : Return(p)
  \/ \E p \in Peers : RefreshLoopExit(p)

SpecGate == InitDeps /\ [][NextGate]_vars

\* The fire of peer p has the lease and its task has no dependencies.
LeasedNoDeps(p) ==
  /\ fire[p].task # NoTask /\ fire[p].lockRes = "held"
  /\ Len(reg[p][fire[p].task].deps) = 0

\* C33: a leased fire of a task without dependencies goes from TryLockTask
\* straight to Executor Dispatch: it makes no ListTaskResults call and takes
\* no gate decision, whatever results the store holds.
C33_NoDependenciesSkipCheck ==
  \A p \in Peers :
    LeasedNoDeps(p)
    => /\ obs[p].read = "none" /\ obs[p].gate = "none" /\ obs[p].seen = <<>>
       /\ fire[p].pc \in {"exec", "running", "store", "update", "release",
                          "return", "done"}
       /\ fire[p].pc \in {"running", "store", "update", "release", "return"}
            => obs[p].nDispatch = 1

\* A leased fire of A, which has no dependencies, is in the executor while
\* the store holds results of A and of B.
C33_Witness ==
  \E p \in Peers :
    /\ LeasedNoDeps(p) /\ fire[p].pc = "running" /\ obs[p].nDispatch = 1
    /\ \A t \in Tasks : results[t] # <<>>

\* The step is a ScheduleTask call on peer p that returns an error: the
\* schedule of the task object it was passed does not parse.
ScheduleTaskFails(p) ==
  caller'[p] # caller[p] /\ ~ParseOK(caller'[p].task.schedule)

\* C34: a ScheduleTask call that fails leaves the peer's registry as it was:
\* the task's previous trigger is still in the entries map and in the cron
\* engine.
C34_FailedScheduleKeepsTrigger ==
  [][\A p \in Peers :
       ScheduleTaskFails(p)
       => /\ sched'[p].entries = sched[p].entries
          /\ sched'[p].cron = sched[p].cron]_vars

\* ------------------------------------------------- schedules through the API
\* The task objects BindJSON makes of a request body when the client's
\* schedule expression may be malformed: Task.Schedule is a plain string,
\* any string binds.
BodiesAnySchedule ==
  {[b EXCEPT !.task.schedule = sc] : b \in Bodies, sc \in {"ok", "bad"}}

\* The peer RegPeer has started on a store of tasks whose schedules parse and
\* serves the API; the other peer has been constructed and starts later.
InitSchedules ==
  \E S \in {{"A"}, Tasks} :
    LET store == [t \in S |-> NewTask(t)]
    IN /\ tasks = store
       /\ results = [t \in Tasks |-> <<>>]
       /\ leases = {}
       /\ reg = [p \in Peers |-> [t \in Tasks |-> NewTask(t)]]
       /\ fire = [p \in Peers |-> IdleFire]
       /\ obs = [p \in Peers |-> NoObs]
       /\ fired = [p \in Peers |-> [t \in Tasks |-> 0]]
       /\ seq = 0
       /\ sched = [p \in Peers |->
            IF p = RegPeer THEN StartOutcome(EmptyRegistry, store, TRUE)
            ELSE EmptyRegistry]
       /\ caller = [p \in Peers |-> NoCaller]
       /\ now = [p \in Peers |-> IdleNow]
       /\ db = EmptyDB
       /\ ret = NoCall

NextSchedules ==
  \/ \E body \in BodiesAnySchedule : handleCreateTask(RegPeer, body)
  \/ \E body \in BodiesAnySchedule : handleUpdateTask(RegPeer, body)
  \/ \E t \in Tasks : handleDeleteTask(RegPeer, t)
  \/ \E p \in Peers \ {RegPeer} : Start(p)

SpecSchedules == InitSchedules /\ [][NextSchedules]_vars

\* The step is a create or update request served with a task object whose
\* schedule expression does not parse.
MalformedRequest ==
  /\ ret'.n > ret.n /\ ret'.op \in {"CreateTask", "UpdateTask"}
  /\ \E p \in Peers :
       caller'[p] # caller[p] /\ ~ParseOK(caller'[p].task.schedule)

\* C35: every stored task has a schedule expression that parses, a create
\* or update request with a malformed schedule persists nothing, and a Start
\* on the store as it is would not abort on a schedule.
C35_StoredSchedulesParse ==
  /\ [](\A t \in DOMAIN tasks : ParseOK(tasks[t].schedule))
  /\ [](StartOutcome(EmptyRegistry, tasks, TRUE).started = "ok")
  /\ [][MalformedRequest => tasks' = tasks]_vars

\* The step is a delete request for which the store's DeleteTask failed.
DeleteFailed ==
  ret'.n > ret.n /\ ret'.op = "DeleteTask" /\ ret'.err

\* C36: a delete request whose DeleteTask fails leaves every registry as it
\* was, and a step takes the trigger of a task out of a peer's registry only
\* if the task has no row in the store after it.
C36_DeleteAllOrNothing ==
  /\ [][DeleteFailed => sched' = sched]_vars
  /\ [][\A p \in Peers : \A t \in Tasks :
          (Triggers(p, t) # {} /\ sched'[p].entries[t] = NoEntry)
          => t \notin DOMAIN tasks']_vars

\* The statuses a result ends with.
Terminal == {TaskStatusCompleted, TaskStatusFailed}

\* C37: every row of task_results has status completed or failed, and so has
\* every result an execution hands to CreateTaskResult, after the executor
\* returned, failed or timed out.
C37_ResultsAreTerminal ==
  /\ \A t \in Tasks : \A i \in DOMAIN results[t] : results[t][i].status \in Terminal
  /\ \A p \in Peers :
       /\ fire[p].pc \in {"store", "update"} => fire[p].res.status \in Terminal
       /\ now[p].pc \in {"store", "update"} => now[p].res.status \in Terminal

\* A fire whose execution timed out is about to store its failed result,
\* while the store holds the result of an earlier fire.
C37_Witness ==
  \E p \in Peers :
    /\ fire[p].pc = "store" /\ obs[p].timedOut
    /\ fire[p].res.status = TaskStatusFailed
    /\ \E t \in Tasks : results[t] # <<>>

\* C38: an ExecuteTaskNow call whose execution ended with a failed result
\* has returned an error, and a call that returned nil has stored a completed
\* result and written the status.
C38_ManualFailureIsReported ==
  \A p \in Peers :
    now[p].pc = "done"
    => /\ now[p].res.status = TaskStatusFailed => now[p].err
       /\ ~now[p].err => now[p].res.status = TaskStatusCompleted

\* The refresh goroutine of peer p's fire is alive though executeTask has
\* returned.
LoopOutlivesFire(p) ==
  fire[p].pc \in {"idle", "done"} /\ fire[p].ref = "live"

\* Every refresh goroutine comes to its end.
RefreshLoopTerminates ==
  \A p \in Peers : (fire[p].ref = "live") ~> (fire[p].ref # "live")

\* No RefreshLock call is made for a fire whose executeTask has returned.
NoRefreshAfterReturn ==
  [][\A p \in Peers :
       fire[p].pc \in {"idle", "done"} => ~RefreshLockCall(p)]_vars

\* No RefreshLock call is made by a refresh goroutine that a failed refresh
\* has ended.
NoRefreshAfterFailure ==
  [][\A p \in Peers : fire[p].ref = "stopped" => ~RefreshLockCall(p)]_vars

\* C39: a fire makes no RefreshLock call once its executeTask has returned
\* or a refresh of it has failed, and a peer has a live refresh loop only for
\* a fire that is in progress.
C39_RefreshLoopEndsWithFire ==
  /\ NoRefreshAfterReturn
  /\ NoRefreshAfterFailure
  /\ [](\A p \in Peers : ~LoopOutlivesFire(p))

\* C40: when a leased fire whose execution was cut off by the 30 s timeout
\* has made its ReleaseLock call, its instance's lease of the task is gone
\* and the task can be acquired by the next fire.
C40_TimeoutReleasesLease ==
  \A p \in Peers :
    (AtEnd(p) /\ obs[p].timedOut /\ obs[p].nRelease = 1)
    => /\ ~Holds(p, fire[p].task)
       /\ TryLockTask(fire[p].task)

====
